---- MODULE Spec2Model ----
(***************************************************************************)
(* Model of the lowRISC flash controller driver                            *)
(* (chips/lowrisc/src/flash_ctrl.rs): the driver's cells, the registers it *)
(* reads and writes, the flash controller hardware behind those registers, *)
(* and the client that owns the page buffers and receives the callbacks.   *)
(*                                                                         *)
(* The driver's entry points (read_page, write_page, erase_page,           *)
(* handle_interrupt) run to completion, one at a time; the hardware makes  *)
(* its steps between them.                                                 *)
(***************************************************************************)
EXTENDS Integers, Sequences, FiniteSets, TLC

\* ------------------------------------------------------------------------
\* Bounds of the model
\* ------------------------------------------------------------------------
\* A page is PageWindows programming windows long (2048 bytes = 32 windows
\* in the source).
PageWindows == 2
\* Number of pages of the data partition (512 in the source).
NumPages == 2
\* Number of page buffers the client owns.
NumBufs == 2
\* Number of API calls the client makes in one behaviour.
MaxCalls == 3
\* Number of operations the hardware aborts with an error in one behaviour.
MaxErrors == 1
\* calls of the memory-protection interface in one behaviour
MaxMPCalls == 2
\* Depth of the hardware's read FIFO and program FIFO, in words.
RdFifoDepth == 16
ProgFifoDepth == 8
\* Words the SPI host driver puts into the TX FIFO before it issues a
\* command (64 in the source).
TxFifoWords == 2
\* read_write_bytes calls the SPI client makes in one behaviour
MaxSpiCalls == 3
\* The SPI client's buffers and their lengths in bytes: shorter than a
\* FIFO fill, exactly one FIFO fill, and more than one.
SpiBufLen == <<3, 4 * TxFifoWords, 4 * TxFifoWords + 3>>
SpiBuffers == 1 .. Len(SpiBufLen)
\* The len arguments the SPI client passes.
SpiLens == {0, 5, 3 * 4 * TxFifoWords}
\* set_rate calls the SPI client makes in one behaviour
MaxRateCalls == 2
\* Process console: the length of the queue buffer (300 in the source) and
\* of the command buffer (32 in the source), and the bytes the UART
\* receives in one behaviour.
QueueBufLen == 6
CommandBufLen == 3
MaxRx == 4
\* The lengths of the tx buffer the console may be built with: shorter
\* than the queue buffer and, as on the board (500), longer.
TxBufLens == {2, QueueBufLen + 2}
\* The lengths of what the console writes. The echo of a newline and of a
\* backspace have the lengths of the source; the prompt ("tock$ ", 6 bytes),
\* the replies to a command, the kernel version line and the kernel memory
\* sections are shortened as the queue buffer is.
CrLfLen == 2
BackspaceEchoLen == 3
PromptLen == 2
ReplyLen == 1
ValidCommandsLen == 1
VersionLen == 1
WelcomeLen == 1
KernelChunkLen == 1
\* The CPU clock in Hz (CONFIG.cpu_freq of the default configuration).
cpu_clk == 10000000
\* The rates the SPI client asks for: the slowest ones, the one the board's
\* test uses, the ones around a divider of 256 and the ones around half the
\* CPU clock.
SpiRates == {1, 2, 76, 77, 19456, 19500, 19531, 19532, 100000,
             cpu_clk \div 2 - 1, cpu_clk \div 2, cpu_clk \div 2 + 1, cpu_clk}

\* ------------------------------------------------------------------------
\* Program constants
\* ------------------------------------------------------------------------
FLASH_PROG_WINDOW_SIZE == 16
\* 0xFFFFFFF0, written as the 32-bit two's complement number it is
FLASH_PROG_WINDOW_MASK == -16
PAGE_SIZE == 4 * FLASH_PROG_WINDOW_SIZE * PageWindows
\* FIFO_LVL::RD value written by read_page, FIFO_LVL::PROG by write_page
RD_FIFO_LEVEL == 15
PROG_FIFO_LEVEL == 0
\* width of CONTROL::NUM
NUM_BITS == 12
\* A 32-bit word is the tuple of its four bytes, least significant first.
ERASED_WORD == <<255, 255, 255, 255>>

Pages == 0 .. (NumPages - 1)
Buffers == 1 .. NumBufs
PageWords == PAGE_SIZE \div 4
FlashWords == NumPages * PageWords

\* The interrupts enable_interrupts arms.
EnabledIrqs == {"PROG_EMPTY", "RD_LVL", "OP_DONE", "OP_ERROR"}

Min(a, b) == IF a < b THEN a ELSE b

\* ------------------------------------------------------------------------
\* State
\* ------------------------------------------------------------------------
VARIABLES
    \* FlashCtrl fields
    read_buf, read_index, write_buf, write_index, write_word_addr,
    data_configured, info_configured,
    \* registers
    intr_enable, intr_state, control, addr, fifo_lvl, op_status, mp_bank_cfg,
    \* the memory-protection registers: default_region, mp_region_cfg,
    \* mp_region, region_cfg_regwen, bank1_info0_page_cfg
    registers,
    \* how often configure_data_partition / configure_info_partition ran
    configure_runs,
    \* the last call of the memory-protection interface and what it returned
    mp_ret,
    \* hardware behind the registers
    hw, rd_fifo, prog_fifo, flash, nerrors,
    \* the words pushed into the program FIFO for the write in flight
    pushed,
    \* client: buffer contents, who holds each buffer, what happened so far
    content, owner, events,
    \* the kernel panicked
    panicked,
    \* a function called on its own: its name, its arguments and its result
    pure,
    \* the SPI host: SpiHost's fields, its registers, the hardware behind
    \* them and its client
    spi,
    \* a partition configuration followed register write by register write:
    \* the function, the writes done, the registers it started from
    config_pc,
    \* the process console: ProcessConsole's fields, its buffers, the UART
    \* under it and what has been written and sent so far
    console

vars == <<read_buf, read_index, write_buf, write_index, write_word_addr,
          data_configured, info_configured,
          intr_enable, intr_state, control, addr, fifo_lvl, op_status,
          mp_bank_cfg, hw, rd_fifo, prog_fifo, flash, nerrors, pushed,
          content, owner, events, panicked, registers, configure_runs,
          mp_ret, pure, spi, config_pc, console>>

\* the variables the transfer engine's hardware never touches
mp_vars == <<registers, configure_runs, mp_ret, pure, spi, config_pc,
            console>>

\* the flash controller's variables
flash_vars == <<read_buf, read_index, write_buf, write_index,
                write_word_addr, data_configured, info_configured,
                intr_enable, intr_state, control, addr, fifo_lvl, op_status,
                mp_bank_cfg, hw, rd_fifo, prog_fifo, flash, nerrors, pushed,
                content, owner, events, panicked, registers, configure_runs,
                mp_ret>>

\* No buffer (TakeCell::empty()).
None == 0

\* The two values a field of a protection register takes: 0x6 sets it,
\* 0x9 clears it.
Set == 6
Clear == 9

FLASH_PAGES_PER_BANK == 256
FLASH_MP_MAX_CFGS == 8

\* The region the board hands to FlashCtrl::new for the kernel's own pages.
region_num == 0

\* mp_ret before any call of the memory-protection interface.
NoCall == [call |-> "none", page |-> 0, num_pages |-> 0, region |-> 0,
           ret |-> "Ok", val |-> 0, n |-> 0]

\* The whole state as one record, so that the steps of an entry point can
\* be composed in program order.
Cur ==
    [read_buf |-> read_buf, read_index |-> read_index,
     write_buf |-> write_buf, write_index |-> write_index,
     write_word_addr |-> write_word_addr,
     data_configured |-> data_configured, info_configured |-> info_configured,
     intr_enable |-> intr_enable, intr_state |-> intr_state,
     control |-> control, addr |-> addr, fifo_lvl |-> fifo_lvl,
     op_status |-> op_status, mp_bank_cfg |-> mp_bank_cfg,
     hw |-> hw, rd_fifo |-> rd_fifo, prog_fifo |-> prog_fifo, flash |-> flash,
     nerrors |-> nerrors, pushed |-> pushed,
     content |-> content, owner |-> owner, events |-> events,
     panicked |-> panicked, registers |-> registers,
     configure_runs |-> configure_runs, mp_ret |-> mp_ret]

Commit(s) ==
    /\ read_buf' = s.read_buf
    /\ read_index' = s.read_index
    /\ write_buf' = s.write_buf
    /\ write_index' = s.write_index
    /\ write_word_addr' = s.write_word_addr
    /\ data_configured' = s.data_configured
    /\ info_configured' = s.info_configured
    /\ intr_enable' = s.intr_enable
    /\ intr_state' = s.intr_state
    /\ control' = s.control
    /\ addr' = s.addr
    /\ fifo_lvl' = s.fifo_lvl
    /\ op_status' = s.op_status
    /\ mp_bank_cfg' = s.mp_bank_cfg
    /\ hw' = s.hw
    /\ rd_fifo' = s.rd_fifo
    /\ prog_fifo' = s.prog_fifo
    /\ flash' = s.flash
    /\ nerrors' = s.nerrors
    /\ pushed' = s.pushed
    /\ content' = s.content
    /\ owner' = s.owner
    /\ events' = s.events
    /\ panicked' = s.panicked
    /\ registers' = s.registers
    /\ configure_runs' = s.configure_runs
    /\ mp_ret' = s.mp_ret
    /\ UNCHANGED <<pure, spi, config_pc, console>>

\* ------------------------------------------------------------------------
\* Words and bytes
\* ------------------------------------------------------------------------
\* buf[o] | buf[o+1] << 8 | buf[o+2] << 16 | buf[o+3] << 24, o 0-based
WordAt(bytes, o) ==
    <<bytes[o + 1], bytes[o + 2], bytes[o + 3], bytes[o + 4]>>

\* u32::to_ne_bytes on the little-endian target
\* the bytes of a word taken most significant first
to_be_bytes(w) == <<w[4], w[3], w[2], w[1]>>

to_ne_bytes(w) == <<w[1], w[2], w[3], w[4]>>

\* buf[o .. o+3] = data
StoreWord(bytes, o, w) ==
    LET data == to_ne_bytes(w)
    IN [i \in 1 .. Len(bytes) |->
            IF i = o + 1 THEN data[1]
            ELSE IF i = o + 2 THEN data[2]
            ELSE IF i = o + 3 THEN data[3]
            ELSE IF i = o + 4 THEN data[4]
            ELSE bytes[i]]

\* Contents of the client's buffers and of the flash at start.
BufInit(b) == [i \in 1 .. PAGE_SIZE |-> (i * (2 * b - 1) + 64 * (b - 1)) % 256]
FlashInit ==
    [a \in 0 .. (FlashWords - 1) |-> <<(3 * a + 7) % 256, a % 256, 90, 165>>]

\* ------------------------------------------------------------------------
\* Client events
\* ------------------------------------------------------------------------
CallEv(op, page, b, res) == [ev |-> op, page |-> page, buf |-> b, res |-> res]
CbEv(cb, b, err) == [ev |-> cb, page |-> 0, buf |-> b, res |-> err]

CallNames == {"read_page", "write_page", "erase_page"}
CbNames == {"read_complete", "write_complete", "erase_complete"}
NumCalls(evs) == Cardinality({i \in 1 .. Len(evs) : evs[i].ev \in CallNames})

\* client.read_complete / write_complete: the buffer goes back to the client
read_complete(s, b, err) ==
    [s EXCEPT !.owner[b] = "client",
              !.events = Append(@, CbEv("read_complete", b, err))]
write_complete(s, b, err) ==
    [s EXCEPT !.owner[b] = "client",
              !.events = Append(@, CbEv("write_complete", b, err))]
erase_complete(s, err) ==
    [s EXCEPT !.events = Append(@, CbEv("erase_complete", None, err))]

\* ------------------------------------------------------------------------
\* Registers
\* ------------------------------------------------------------------------
\* CTRL_REGWEN::EN: the controller takes a command only while it runs none
ctrl_regwen(s) == s.hw.op = "none"

enable_interrupts(s) == [s EXCEPT !.intr_enable = EnabledIrqs]

disable_interrupts(s) == [s EXCEPT !.intr_enable = {}, !.intr_state = {}]

\* control.write(OP + .. + NUM + START::CLEAR); addr.write(a);
\* control.modify(START::SET).  CONTROL and ADDR are writable only while
\* CTRL_REGWEN is set; the command starts when START is set.
StartCommand(s, op, num, a) ==
    IF ctrl_regwen(s)
    THEN [s EXCEPT !.control = [op |-> op, num |-> num, start |-> TRUE,
                                erase_sel |-> "PAGE"],
                   !.addr = a,
                   !.hw = [op |-> op, cnt |-> num + 1, waddr |-> a \div 4,
                           err |-> FALSE, mp_err |-> FALSE,
                           bank_erase_en |-> s.mp_bank_cfg]]
    ELSE s

\* a run length that looks at the remaining bytes only
calculate_max_prog_len_NoWindow(word_addr, rem_bytes) == rem_bytes \div 4

calculate_max_prog_len(word_addr, rem_bytes) ==
    LET sum == word_addr + FLASH_PROG_WINDOW_SIZE
        \* sum & FLASH_PROG_WINDOW_MASK: the mask clears the low bits
        masked == sum - (sum % (0 - FLASH_PROG_WINDOW_MASK))
        window_limit == masked - word_addr
        words_to_write == rem_bytes \div 4
    IN IF words_to_write < window_limit THEN words_to_write ELSE window_limit

\* The fields of MP_REGION_CFG and BANK_INFO_PAGE_CFG, and of DEFAULT_REGION.
MP_REGION_CFG == {"en", "rd_en", "prog_en", "erase_en", "scramble_en",
                  "ecc_en", "he_en"}
BANK_INFO_PAGE_CFG == MP_REGION_CFG
DEFAULT_REGION == {"rd_en", "prog_en", "erase_en", "scramble_en", "ecc_en",
                   "he_en"}

\* The eight memory-protection regions, REGION0 .. REGION7.
FlashRegion == 0 .. FLASH_MP_MAX_CFGS - 1

\* Register.write(fields): the whole register is replaced, a field the
\* value does not name becomes 0.
write(fields, v) == [f \in fields |-> IF f \in DOMAIN v THEN v[f] ELSE 0]

\* Register.modify(fields): only the named fields change.
modify(reg, v) == [f \in DOMAIN reg |-> IF f \in DOMAIN v THEN v[f] ELSE reg[f]]

\* REGION_CFG_REGWEN[num]: the configuration of a region is writable until
\* its write-enable is cleared; the hardware drops a write to a locked one.
region_cfg_regwen(s, num) == s.registers.region_cfg_regwen[num]

\* data_partition_step with the region enabled before base and size are
\* written
data_partition_step_EnableFirst(s, num, k) ==
    IF k = 1
    THEN [s EXCEPT !.registers.default_region =
              write(DEFAULT_REGION,
                    [rd_en |-> Set, prog_en |-> Set, erase_en |-> Set])]
    ELSE IF k = 2
    THEN [s EXCEPT !.registers.mp_region_cfg[num] =
              write(MP_REGION_CFG,
                    [rd_en |-> Set, prog_en |-> Set, erase_en |-> Set,
                     scramble_en |-> Clear, ecc_en |-> Clear, en |-> Set])]
    ELSE IF k = 3
    THEN [s EXCEPT !.registers.mp_region[num] =
              [base |-> FLASH_PAGES_PER_BANK, size |-> 1]]
    ELSE [s EXCEPT !.data_configured = TRUE, !.configure_runs.data = @ + 1]

\* The register writes of configure_data_partition, in program order:
\* 1 default_region, 2 mp_region_cfg (permissions, EN::Clear), 3 mp_region
\* (base and size), 4 mp_region_cfg.modify(EN::Set) and data_configured.
data_partition_step(s, num, k) ==
    IF k = 1
    THEN [s EXCEPT !.registers.default_region =
              write(DEFAULT_REGION,
                    [rd_en |-> Set, prog_en |-> Set, erase_en |-> Set])]
    ELSE IF k = 2
    THEN IF region_cfg_regwen(s, num)
         THEN [s EXCEPT !.registers.mp_region_cfg[num] =
                   write(MP_REGION_CFG,
                         [rd_en |-> Set, prog_en |-> Set, erase_en |-> Set,
                          scramble_en |-> Clear, ecc_en |-> Clear,
                          en |-> Clear])]
         ELSE s
    ELSE IF k = 3
    THEN IF region_cfg_regwen(s, num)
         THEN [s EXCEPT !.registers.mp_region[num] =
                   [base |-> FLASH_PAGES_PER_BANK, size |-> 1]]
         ELSE s
    ELSE LET s4 == IF region_cfg_regwen(s, num)
                   THEN [s EXCEPT !.registers.mp_region_cfg[num] =
                             modify(@, [en |-> Set])]
                   ELSE s
         IN [s4 EXCEPT !.data_configured = TRUE,
                       !.configure_runs.data = @ + 1]

configure_data_partition(s, num) ==
    data_partition_step(
        data_partition_step(
            data_partition_step(
                data_partition_step(s, num, 1), num, 2), num, 3), num, 4)

\* The register writes of configure_info_partition called with
\* FlashBank::BANK1, in program order: 1 bank1_info0_page_cfg (permissions,
\* EN::Clear), 2 modify(EN::Set) and info_configured.
info_partition_step(s, num, k) ==
    IF k = 1
    THEN [s EXCEPT !.registers.bank1_info0_page_cfg[num] =
              write(BANK_INFO_PAGE_CFG,
                    [rd_en |-> Set, prog_en |-> Set, erase_en |-> Set,
                     scramble_en |-> Set, ecc_en |-> Set, en |-> Clear])]
    ELSE LET s2 == [s EXCEPT !.registers.bank1_info0_page_cfg[num] =
                        modify(@, [en |-> Set])]
         IN [s2 EXCEPT !.info_configured = TRUE,
                       !.configure_runs.info = @ + 1]

\* Called with FlashBank::BANK1: the BANK1 arm runs.
configure_info_partition(s, num) ==
    info_partition_step(info_partition_step(s, num, 1), num, 2)

\* STATUS::PROG_FULL, STATUS::RD_EMPTY
PROG_FULL(s) == Len(s.prog_fifo) >= ProgFifoDepth
RD_EMPTY(s) == s.rd_fifo = <<>>

\* The push loop of write_page and of the PROG_EMPTY branch:
\*   for i in 0..transaction_word_len { if PROG_FULL { words_written = i;
\*   break; } prog_fifo.set(word at write_index); write_index += 4;
\*   words_written = i + 1; }
\* The result is the state after the loop and words_written.
\* (Each round reads the state through v, bound to the value of s.)
RECURSIVE PushLoop(_, _, _, _, _)
PushLoop(s, b, i, transaction_word_len, words_written) ==
    CHOOSE r \in {
        IF i >= transaction_word_len
        THEN [s |-> v, words_written |-> words_written]
        ELSE IF PROG_FULL(v)
        THEN [s |-> v, words_written |-> i]
        ELSE PushLoop([v EXCEPT !.prog_fifo =
                                    Append(@, WordAt(v.content[b], v.write_index)),
                                !.pushed =
                                    Append(@, WordAt(v.content[b], v.write_index)),
                                !.write_index = @ + 4],
                      b, i + 1, transaction_word_len, i + 1)
        : v \in {s} } : TRUE

\* a drain loop that runs until the FIFO is empty, wherever the cursor is
RECURSIVE DrainLoop_Unbounded(_, _)
DrainLoop_Unbounded(s, b) ==
    CHOOSE r \in {
        IF ~RD_EMPTY(v)
        THEN DrainLoop_Unbounded(
                 [v EXCEPT !.content[b] =
                               StoreWord(@, v.read_index, Head(v.rd_fifo)),
                           !.rd_fifo = Tail(@),
                           !.read_index = @ + 4],
                 b)
        ELSE v
        : v \in {s} } : TRUE

\* The drain loop of the RD_LVL branch:
\*   while !RD_EMPTY && read_index < PAGE_SIZE { buf[read_index..] =
\*   rd_fifo.get().to_ne_bytes(); read_index += 4; }
RECURSIVE DrainLoop(_, _)
DrainLoop(s, b) ==
    CHOOSE r \in {
        IF ~RD_EMPTY(v) /\ v.read_index < PAGE_SIZE
        THEN DrainLoop([v EXCEPT !.content[b] =
                                     StoreWord(@, v.read_index, Head(v.rd_fifo)),
                                 !.rd_fifo = Tail(@),
                                 !.read_index = @ + 4],
                       b)
        ELSE v
        : v \in {s} } : TRUE

\* CONTROL::NUM.val(v): the value is cut to the width of the field; v is a
\* u32, and -1 stands for 0xFFFFFFFF
NumField(v) == v % (2 ^ NUM_BITS)

\* console before ProcessConsole::new has run
NoConsole == [constructed |-> FALSE]

\* ------------------------------------------------------------------------
\* Init
\* ------------------------------------------------------------------------
\* The state after FlashCtrl::new and set_client, the hardware out of reset
\* with the bank-erase enables bank_cfg.  The protection registers reset to
\* every field cleared and every region unlocked.
InitWith(bank_cfg) ==
    /\ config_pc = [fn |-> "none", at |-> 0, before |-> <<>>]
    /\ console = NoConsole
    /\ read_buf = None
    /\ read_index = 0
    /\ write_buf = None
    /\ write_index = 0
    /\ write_word_addr = 0
    /\ data_configured = FALSE
    /\ info_configured = FALSE
    /\ intr_enable = {}
    /\ intr_state = {}
    /\ control = [op |-> "read", num |-> 0, start |-> FALSE,
                  erase_sel |-> "PAGE"]
    /\ addr = 0
    /\ fifo_lvl = [prog |-> RD_FIFO_LEVEL, rd |-> RD_FIFO_LEVEL]
    /\ op_status = {}
    /\ mp_bank_cfg = bank_cfg
    /\ hw = [op |-> "none", cnt |-> 0, waddr |-> 0, err |-> FALSE,
             mp_err |-> FALSE, bank_erase_en |-> mp_bank_cfg]
    /\ rd_fifo = <<>>
    /\ prog_fifo = <<>>
    /\ flash = FlashInit
    /\ nerrors = 0
    /\ pushed = <<>>
    /\ content = [b \in Buffers |-> BufInit(b)]
    /\ owner = [b \in Buffers |-> "client"]
    /\ events = <<>>
    /\ panicked = FALSE
    /\ registers =
           [default_region |-> [f \in DEFAULT_REGION |-> Clear],
            mp_region_cfg |-> [r \in FlashRegion |->
                                  [f \in MP_REGION_CFG |-> Clear]],
            mp_region |-> [r \in FlashRegion |-> [base |-> 0, size |-> 0]],
            region_cfg_regwen |-> [r \in FlashRegion |-> TRUE],
            bank1_info0_page_cfg |->
                [r \in {region_num} |-> [f \in BANK_INFO_PAGE_CFG |-> Clear]]]
    /\ configure_runs = [data |-> 0, info |-> 0]
    /\ mp_ret = NoCall

\* SpiHost::new: nothing in flight, no buffer held, no client; the
\* registers as reset leaves them; every buffer with the client.
\* debug_assertions tells whether the build checks debug_assert!.
SpiHostNew ==
    [debug_assertions |-> FALSE,
     client |-> FALSE, initialized |-> FALSE, busy |-> FALSE,
     tsclk |-> 0, clkdiv_0 |-> 0,
     tx_buf |-> None, rx_buf |-> None,
     tx_len |-> 0, rx_len |-> 0, tx_offset |-> 0, rx_offset |-> 0,
     intr_enable |-> {}, intr_state |-> {}, event_en |-> {},
     txqd |-> 0, rxqd |-> 0, active |-> FALSE,
     owner |-> [b \in SpiBuffers |-> "client"],
     events |-> <<>>, panicked |-> FALSE]

\* pure while no function is called on its own
NoArgs == [fn |-> "none", word_addr |-> 0, rem_bytes |-> 0, out |-> 0]

Init ==
    /\ InitWith([erase_en_0 |-> FALSE, erase_en_1 |-> FALSE])
    /\ pure = NoArgs
    /\ spi = SpiHostNew

\* ------------------------------------------------------------------------
\* Flash::read_page / write_page / erase_page
\* ------------------------------------------------------------------------
\* The lazy partition setup at the head of the three entry points.
\* a setup that does not look at the flags
ConfigurePartitions_Always(s) ==
    configure_data_partition(configure_info_partition(s, region_num),
                             region_num)

\* (read_page and write_page: info partition first.)
ConfigurePartitions(s) ==
    LET s1 == IF ~s.info_configured
              THEN configure_info_partition(s, region_num) ELSE s
    IN IF ~s1.data_configured
       THEN configure_data_partition(s1, region_num) ELSE s1

\* a read_page that keeps the cursor of the previous read
ReadPageStep_KeepsIndex(s0, page_number, buf) ==
    LET a == page_number * PAGE_SIZE
        s1 == ConfigurePartitions(s0)
        s2 == [enable_interrupts(s1) EXCEPT !.fifo_lvl.rd = RD_FIFO_LEVEL]
    IN IF ~ctrl_regwen(s2)
       THEN [s2 EXCEPT !.events =
                 Append(@, CallEv("read_page", page_number, buf, "BUSY"))]
       ELSE LET s3 == [s2 EXCEPT !.read_buf = buf, !.owner[buf] = "driver"]
                s4 == StartCommand(s3, "read", NumField(PageWords - 1), a)
            IN [s4 EXCEPT !.events =
                    Append(@, CallEv("read_page", page_number, buf, "Ok"))]

ReadPageStep(s0, page_number, buf) ==
    LET a == page_number * PAGE_SIZE
        s1 == ConfigurePartitions(s0)
        s2 == [enable_interrupts(s1) EXCEPT !.fifo_lvl.rd = RD_FIFO_LEVEL]
    IN IF ~ctrl_regwen(s2)
       THEN [s2 EXCEPT !.events =
                 Append(@, CallEv("read_page", page_number, buf, "BUSY"))]
       ELSE LET s3 == [s2 EXCEPT !.read_buf = buf, !.read_index = 0,
                                 !.owner[buf] = "driver"]
                s4 == StartCommand(s3, "read", NumField(PageWords - 1), a)
            IN [s4 EXCEPT !.events =
                    Append(@, CallEv("read_page", page_number, buf, "Ok"))]

ReadPage(page_number, buf) ==
    /\ ~panicked
    /\ NumCalls(events) < MaxCalls
    /\ owner[buf] = "client"
    /\ Commit(ReadPageStep(Cur, page_number, buf))

WritePageStep(s0, page_number, buf) ==
    LET a == page_number * PAGE_SIZE
        s1 == ConfigurePartitions(s0)
    IN IF ~ctrl_regwen(s1)
       THEN [s1 EXCEPT !.events =
                 Append(@, CallEv("write_page", page_number, buf, "BUSY"))]
       ELSE LET word_address == a \div 4
                transaction_word_len ==
                    calculate_max_prog_len(word_address, PAGE_SIZE)
                s2 == StartCommand([s1 EXCEPT !.write_index = 0,
                                             !.pushed = <<>>], "prog",
                                   NumField(transaction_word_len - 1), a)
                r == PushLoop(s2, buf, 0, transaction_word_len, 0)
                s3 == [r.s EXCEPT
                           !.write_word_addr = (a \div 4) + r.words_written,
                           !.write_buf = buf,
                           !.owner[buf] = "driver"]
                s4 == [enable_interrupts(s3) EXCEPT
                           !.fifo_lvl.prog = PROG_FIFO_LEVEL]
            IN [s4 EXCEPT !.events =
                    Append(@, CallEv("write_page", page_number, buf, "Ok"))]

WritePage(page_number, buf) ==
    /\ ~panicked
    /\ NumCalls(events) < MaxCalls
    /\ owner[buf] = "client"
    /\ Commit(WritePageStep(Cur, page_number, buf))

\* an erase_page that starts the command before it clears the enables
ErasePageStep_ClearAfterStart(s0, page_number) ==
    LET a == page_number * PAGE_SIZE
        sd == IF ~s0.data_configured
              THEN configure_data_partition(s0, region_num) ELSE s0
        s1 == IF ~sd.info_configured
              THEN configure_info_partition(sd, region_num) ELSE sd
        s2 == StartCommand(enable_interrupts(s1), "erase", 0, a)
        s3 == [s2 EXCEPT !.mp_bank_cfg =
                             [erase_en_0 |-> FALSE, erase_en_1 |-> FALSE]]
    IN [s3 EXCEPT !.events =
            Append(@, CallEv("erase_page", page_number, None, "Ok"))]

ErasePageStep(s0, page_number) ==
    LET a == page_number * PAGE_SIZE
        sd == IF ~s0.data_configured
              THEN configure_data_partition(s0, region_num) ELSE s0
        s1 == IF ~sd.info_configured
              THEN configure_info_partition(sd, region_num) ELSE sd
        \* MP_BANK_CFG_SHADOWED: ERASE_EN_0::CLEAR + ERASE_EN_1::CLEAR, twice
        s2 == [s1 EXCEPT !.mp_bank_cfg =
                             [erase_en_0 |-> FALSE, erase_en_1 |-> FALSE]]
        \* addr.write(a); enable_interrupts();
        \* control.write(OP::ERASE + ERASE_SEL::PAGE + .. + START::SET)
        s3 == StartCommand(enable_interrupts(s2), "erase", 0, a)
    IN [s3 EXCEPT !.events =
            Append(@, CallEv("erase_page", page_number, None, "Ok"))]

ErasePage(page_number) ==
    /\ ~panicked
    /\ NumCalls(events) < MaxCalls
    /\ Commit(ErasePageStep(Cur, page_number))

\* ------------------------------------------------------------------------
\* FlashMemoryProtection / FlashMemoryProtectionAdvanced
\* ------------------------------------------------------------------------
\* The permissions of a region as the interface passes them.
FlashMPAdvConfig ==
    [read_en : BOOLEAN, write_en : BOOLEAN, erase_en : BOOLEAN,
     scramble_en : BOOLEAN, ecc_en : BOOLEAN, he_en : BOOLEAN]

\* The arguments the client passes: the last page and the first page past
\* the partition, a length of one page and one that the partition holds but
\* not from the last page on, two regions and the first index past the
\* last region.
MPPageArgs == {NumPages - 1, NumPages}
MPNumPagesArgs == {1, NumPages}
MPRegionArgs == {region_num, FLASH_MP_MAX_CFGS - 1, FLASH_MP_MAX_CFGS}

\* A permission as a register field, and back.
FieldOf(en) == IF en THEN Set ELSE Clear
IsSet(field) == field = Set

MPReturn(s, call, page_number, num_pages, region, ret, val) ==
    [s EXCEPT !.mp_ret = [call |-> call, page |-> page_number,
                          num_pages |-> num_pages, region |-> region,
                          ret |-> ret, val |-> val, n |-> s.mp_ret.n + 1]]

\* a set_adv_region_perms that does not compare the length with the pages left
set_adv_region_perms_NoLengthCheck(s, page_number, num_pages, region, mp_perms) ==
    LET r(ret, s1) == MPReturn(s1, "set_adv_region_perms", page_number,
                               num_pages, region, ret,
                               IF ret = "Ok" THEN mp_perms ELSE 0)
    IN IF page_number >= NumPages \/ region >= FLASH_MP_MAX_CFGS
       THEN r("NOSUPPORT", s)
       ELSE IF ~region_cfg_regwen(s, region)
       THEN r("Ok", s)
       ELSE r("Ok",
              [s EXCEPT !.registers.mp_region_cfg[region] =
                            [en |-> Set,
                             rd_en |-> FieldOf(mp_perms.read_en),
                             prog_en |-> FieldOf(mp_perms.write_en),
                             erase_en |-> FieldOf(mp_perms.erase_en),
                             scramble_en |-> FieldOf(mp_perms.scramble_en),
                             ecc_en |-> FieldOf(mp_perms.ecc_en),
                             he_en |-> FieldOf(mp_perms.he_en)],
                        !.registers.mp_region[region] =
                            [base |-> page_number, size |-> num_pages]])

\* a set_adv_region_perms whose writes reach a locked region
set_adv_region_perms_IgnoresLock(s, page_number, num_pages, region, mp_perms) ==
    LET r(ret, s1) == MPReturn(s1, "set_adv_region_perms", page_number,
                               num_pages, region, ret,
                               IF ret = "Ok" THEN mp_perms ELSE 0)
    IN IF page_number >= NumPages \/ region >= FLASH_MP_MAX_CFGS
       THEN r("NOSUPPORT", s)
       ELSE IF num_pages > NumPages - page_number
       THEN r("INVAL", s)
       ELSE r("Ok",
              [s EXCEPT !.registers.mp_region_cfg[region] =
                            [en |-> Set,
                             rd_en |-> FieldOf(mp_perms.read_en),
                             prog_en |-> FieldOf(mp_perms.write_en),
                             erase_en |-> FieldOf(mp_perms.erase_en),
                             scramble_en |-> FieldOf(mp_perms.scramble_en),
                             ecc_en |-> FieldOf(mp_perms.ecc_en),
                             he_en |-> FieldOf(mp_perms.he_en)],
                        !.registers.mp_region[region] =
                            [base |-> page_number, size |-> num_pages]])

\* set_region_perms / set_adv_region_perms: an out-of-range page or region
\* is NOSUPPORT, a length past the end of the partition is INVAL; otherwise
\* the region's permissions and its base and size are written and the
\* region is enabled.  The hardware drops the writes to a locked region.
set_adv_region_perms(s, page_number, num_pages, region, mp_perms) ==
    LET r(ret, s1) == MPReturn(s1, "set_adv_region_perms", page_number,
                               num_pages, region, ret,
                               IF ret = "Ok" THEN mp_perms ELSE 0)
    IN IF page_number >= NumPages \/ region >= FLASH_MP_MAX_CFGS
       THEN r("NOSUPPORT", s)
       ELSE IF num_pages > NumPages - page_number
       THEN r("INVAL", s)
       ELSE IF ~region_cfg_regwen(s, region)
       THEN r("Ok", s)
       ELSE r("Ok",
              [s EXCEPT !.registers.mp_region_cfg[region] =
                            [en |-> Set,
                             rd_en |-> FieldOf(mp_perms.read_en),
                             prog_en |-> FieldOf(mp_perms.write_en),
                             erase_en |-> FieldOf(mp_perms.erase_en),
                             scramble_en |-> FieldOf(mp_perms.scramble_en),
                             ecc_en |-> FieldOf(mp_perms.ecc_en),
                             he_en |-> FieldOf(mp_perms.he_en)],
                        !.registers.mp_region[region] =
                            [base |-> page_number, size |-> num_pages]])

\* a read_adv_region_perms that takes every non-zero field for a set one
read_adv_region_perms_NonZero(s, region) ==
    LET cfg == s.registers.mp_region_cfg[region]
    IN IF region >= FLASH_MP_MAX_CFGS
       THEN MPReturn(s, "read_adv_region_perms", 0, 0, region, "NOSUPPORT", 0)
       ELSE MPReturn(s, "read_adv_region_perms", 0, 0, region, "Ok",
                     [read_en |-> cfg.rd_en # 0,
                      write_en |-> cfg.prog_en # 0,
                      erase_en |-> cfg.erase_en # 0,
                      scramble_en |-> cfg.scramble_en # 0,
                      ecc_en |-> cfg.ecc_en # 0,
                      he_en |-> cfg.he_en # 0])

read_adv_region_perms(s, region) ==
    LET cfg == s.registers.mp_region_cfg[region]
    IN IF region >= FLASH_MP_MAX_CFGS
       THEN MPReturn(s, "read_adv_region_perms", 0, 0, region, "NOSUPPORT", 0)
       ELSE MPReturn(s, "read_adv_region_perms", 0, 0, region, "Ok",
                     [read_en |-> IsSet(cfg.rd_en),
                      write_en |-> IsSet(cfg.prog_en),
                      erase_en |-> IsSet(cfg.erase_en),
                      scramble_en |-> IsSet(cfg.scramble_en),
                      ecc_en |-> IsSet(cfg.ecc_en),
                      he_en |-> IsSet(cfg.he_en)])

read_region_perms(s, region) ==
    LET cfg == s.registers.mp_region_cfg[region]
    IN IF region >= FLASH_MP_MAX_CFGS
       THEN MPReturn(s, "read_region_perms", 0, 0, region, "NOSUPPORT", 0)
       ELSE MPReturn(s, "read_region_perms", 0, 0, region, "Ok",
                     [read_en |-> IsSet(cfg.rd_en),
                      write_en |-> IsSet(cfg.prog_en)])

is_region_locked(s, region) ==
    IF region >= FLASH_MP_MAX_CFGS
    THEN MPReturn(s, "is_region_locked", 0, 0, region, "NOSUPPORT", 0)
    ELSE MPReturn(s, "is_region_locked", 0, 0, region, "Ok",
                  ~region_cfg_regwen(s, region))

\* a lock_region_cfg that answers an out-of-range region with INVAL
lock_region_cfg_Inval(s, region) ==
    IF region >= FLASH_MP_MAX_CFGS
    THEN MPReturn(s, "lock_region_cfg", 0, 0, region, "INVAL", 0)
    ELSE MPReturn([s EXCEPT !.registers.region_cfg_regwen[region] = FALSE],
                  "lock_region_cfg", 0, 0, region, "Ok", 0)

lock_region_cfg(s, region) ==
    IF region >= FLASH_MP_MAX_CFGS
    THEN MPReturn(s, "lock_region_cfg", 0, 0, region, "NOSUPPORT", 0)
    ELSE MPReturn([s EXCEPT !.registers.region_cfg_regwen[region] = FALSE],
                  "lock_region_cfg", 0, 0, region, "Ok", 0)

SetAdvRegionPerms(page_number, num_pages, region, mp_perms) ==
    /\ mp_ret.n < MaxMPCalls
    /\ Commit(set_adv_region_perms(Cur, page_number, num_pages, region,
                                   mp_perms))

ReadAdvRegionPerms(region) ==
    /\ mp_ret.n < MaxMPCalls
    /\ Commit(read_adv_region_perms(Cur, region))

ReadRegionPerms(region) ==
    /\ mp_ret.n < MaxMPCalls
    /\ Commit(read_region_perms(Cur, region))

IsRegionLocked(region) ==
    /\ mp_ret.n < MaxMPCalls
    /\ Commit(is_region_locked(Cur, region))

LockRegionCfg(region) ==
    /\ mp_ret.n < MaxMPCalls
    /\ Commit(lock_region_cfg(Cur, region))

\* ------------------------------------------------------------------------
\* FlashCtrl::handle_interrupt
\* ------------------------------------------------------------------------
\* an OP_ERROR branch that returns the read buffer only
OpErrorBranch_ReadOnly(s0) ==
    LET s1 == [s0 EXCEPT !.op_status = {}]
    IN IF s1.read_buf # None
       THEN read_complete([s1 EXCEPT !.read_buf = None],
                          s1.read_buf, "FlashError")
       ELSE s1

OpErrorBranch(s0) ==
    LET s1 == [s0 EXCEPT !.op_status = {}]
        s2 == IF s1.read_buf # None
              THEN read_complete([s1 EXCEPT !.read_buf = None],
                                 s1.read_buf, "FlashError")
              ELSE s1
    IN IF s2.write_buf # None
       THEN write_complete([s2 EXCEPT !.write_buf = None],
                           s2.write_buf, "FlashError")
       ELSE s2

RdLvlBranch(s0) ==
    IF s0.read_buf # None
    THEN enable_interrupts(DrainLoop(s0, s0.read_buf))
    ELSE s0

\* a PROG_EMPTY branch that advances the word address by the length of the
\* run, not by the words pushed
ProgEmptyBranch_AdvancesByRun(s0, overflow_checks) ==
    IF s0.write_buf = None
    THEN s0
    ELSE LET transaction_word_len ==
                 calculate_max_prog_len(s0.write_word_addr,
                                        PAGE_SIZE - s0.write_index)
         IN IF transaction_word_len = 0 /\ overflow_checks
            THEN [s0 EXCEPT !.panicked = TRUE]
            ELSE LET s1 == StartCommand(s0, "prog",
                                        NumField(transaction_word_len - 1),
                                        s0.write_word_addr * 4)
                     r == PushLoop(s1, s0.write_buf, 0,
                                   transaction_word_len, 0)
                 IN enable_interrupts(
                        [r.s EXCEPT !.write_word_addr =
                                        @ + transaction_word_len])

\* overflow_checks: the build panics on `transaction_word_len as u32 - 1`
\* when transaction_word_len is 0; without them the subtraction wraps.
ProgEmptyBranch(s0, overflow_checks) ==
    IF s0.write_buf = None
    THEN s0
    ELSE LET transaction_word_len ==
                 calculate_max_prog_len(s0.write_word_addr,
                                        PAGE_SIZE - s0.write_index)
         IN IF transaction_word_len = 0 /\ overflow_checks
            THEN [s0 EXCEPT !.panicked = TRUE]
            ELSE LET s1 == StartCommand(s0, "prog",
                                        NumField(transaction_word_len - 1),
                                        s0.write_word_addr * 4)
                     r == PushLoop(s1, s0.write_buf, 0,
                                   transaction_word_len, 0)
                 IN enable_interrupts(
                        [r.s EXCEPT !.write_word_addr = @ + r.words_written])

\* an OP_DONE branch that completes without comparing the cursor with the
\* buffer's length
OpDoneBranch_NoLengthCheck(s0) ==
    IF s0.control.op = "read"
    THEN IF s0.read_buf # None
         THEN read_complete([s0 EXCEPT !.read_buf = None, !.op_status = {}],
                            s0.read_buf, "CommandComplete")
         ELSE s0
    ELSE IF s0.control.op = "prog"
    THEN IF s0.write_buf # None
         THEN write_complete([s0 EXCEPT !.write_buf = None, !.op_status = {}],
                             s0.write_buf, "CommandComplete")
         ELSE s0
    ELSE IF s0.control.op = "erase"
    THEN erase_complete(s0, "CommandComplete")
    ELSE s0

OpDoneBranch(s0) ==
    IF s0.control.op = "read"
    THEN IF s0.read_buf # None
         THEN IF s0.read_index >= PAGE_SIZE
              THEN read_complete([s0 EXCEPT !.read_buf = None,
                                            !.op_status = {}],
                                 s0.read_buf, "CommandComplete")
              ELSE enable_interrupts(s0)
         ELSE s0
    ELSE IF s0.control.op = "prog"
    THEN IF s0.write_buf # None
         THEN IF s0.write_index >= PAGE_SIZE
              THEN write_complete([s0 EXCEPT !.write_buf = None,
                                             !.op_status = {}],
                                  s0.write_buf, "CommandComplete")
              ELSE enable_interrupts(s0)
         ELSE s0
    ELSE IF s0.control.op = "erase"
    THEN erase_complete(s0, "CommandComplete")
    ELSE s0

HandleInterruptStep(s, overflow_checks) ==
    LET irqs == s.intr_state
        s0 == disable_interrupts(s)
        s1 == IF "OP_ERROR" \in irqs THEN OpErrorBranch(s0) ELSE s0
        s2 == IF "RD_LVL" \in irqs THEN RdLvlBranch(s1) ELSE s1
        s3 == IF "PROG_EMPTY" \in irqs
              THEN ProgEmptyBranch(s2, overflow_checks) ELSE s2
    IN IF s3.panicked THEN s3
       ELSE IF "OP_DONE" \in irqs THEN OpDoneBranch(s3) ELSE s3

\* The interrupt line is raised while an enabled interrupt is pending.
HandleInterrupt(overflow_checks) ==
    /\ ~panicked
    /\ intr_state \cap intr_enable # {}
    /\ Commit(HandleInterruptStep(Cur, overflow_checks))

\* ------------------------------------------------------------------------
\* The flash controller hardware
\* ------------------------------------------------------------------------
\* The hardware moves words in bursts.  A read command moves words of the
\* flash into the read FIFO until the FIFO reaches the level FIFO_LVL::RD
\* (which raises RD_LVL), is full, or the command has no word left.
HwRead ==
    /\ hw.op = "read" /\ hw.cnt > 0
    /\ Len(rd_fifo) < RdFifoDepth
    /\ LET stop == IF Len(rd_fifo) < fifo_lvl.rd /\ fifo_lvl.rd < RdFifoDepth
                   THEN fifo_lvl.rd ELSE RdFifoDepth
           n == Min(hw.cnt, stop - Len(rd_fifo))
       IN /\ rd_fifo' = rd_fifo \o [k \in 1 .. n |->
                            IF hw.waddr + k - 1 \in DOMAIN flash
                            THEN flash[hw.waddr + k - 1] ELSE ERASED_WORD]
          /\ hw' = [hw EXCEPT !.cnt = @ - n, !.waddr = @ + n]
          /\ intr_state' = IF Len(rd_fifo) < fifo_lvl.rd
                              /\ Len(rd_fifo) + n >= fifo_lvl.rd
                           THEN intr_state \cup {"RD_LVL"} ELSE intr_state
    /\ UNCHANGED <<read_buf, read_index, write_buf, write_index,
                   write_word_addr, data_configured, info_configured,
                   intr_enable, control, addr, fifo_lvl, op_status,
                   mp_bank_cfg, prog_fifo, flash, nerrors, pushed, content, owner,
                   events, panicked, mp_vars>>

\* A program command takes the words out of the program FIFO and stores them
\* at the next word addresses, as many as it still expects; PROG_EMPTY is
\* raised when the FIFO runs empty.
HwProg ==
    /\ hw.op = "prog" /\ hw.cnt > 0
    /\ prog_fifo # <<>>
    /\ LET n == Min(hw.cnt, Len(prog_fifo))
       IN /\ prog_fifo' = SubSeq(prog_fifo, n + 1, Len(prog_fifo))
          /\ flash' = [a \in DOMAIN flash |->
                           IF a >= hw.waddr /\ a < hw.waddr + n
                           THEN prog_fifo[a - hw.waddr + 1] ELSE flash[a]]
          /\ hw' = [hw EXCEPT !.cnt = @ - n, !.waddr = @ + n]
          /\ intr_state' = IF n = Len(prog_fifo)
                           THEN intr_state \cup {"PROG_EMPTY"} ELSE intr_state
    /\ UNCHANGED <<read_buf, read_index, write_buf, write_index,
                   write_word_addr, data_configured, info_configured,
                   intr_enable, control, addr, fifo_lvl, op_status,
                   mp_bank_cfg, rd_fifo, nerrors, pushed, content, owner, events,
                   panicked, mp_vars>>

\* A page erase sets every word of the addressed page to all ones.
HwErasePage ==
    /\ hw.op = "erase" /\ hw.cnt > 0
    /\ LET page == hw.waddr \div PageWords
       IN flash' = [a \in DOMAIN flash |->
                        IF a \div PageWords = page THEN ERASED_WORD
                        ELSE flash[a]]
    /\ hw' = [hw EXCEPT !.cnt = 0]
    /\ UNCHANGED <<read_buf, read_index, write_buf, write_index,
                   write_word_addr, data_configured, info_configured,
                   intr_enable, intr_state, control, addr, fifo_lvl,
                   op_status, mp_bank_cfg, rd_fifo, prog_fifo, nerrors,
                   pushed, content, owner, events, panicked, mp_vars>>

\* The command has moved all its words: the controller is free again and
\* raises OP_DONE.
HwDone ==
    /\ hw.op # "none" /\ hw.cnt = 0
    /\ hw' = [hw EXCEPT !.op = "none", !.err = FALSE, !.mp_err = FALSE]
    /\ intr_state' = intr_state \cup {"OP_DONE"}
    /\ op_status' = op_status \cup {"DONE"}
    /\ control' = [control EXCEPT !.start = FALSE]
    /\ UNCHANGED <<read_buf, read_index, write_buf, write_index,
                   write_word_addr, data_configured, info_configured,
                   intr_enable, addr, fifo_lvl, mp_bank_cfg, rd_fifo,
                   prog_fifo, flash, nerrors, pushed, content, owner, events,
                   panicked, mp_vars>>

\* The command ends with an error: the controller is free again and raises
\* OP_ERROR, with or without OP_DONE; mp_err tells an access the memory
\* protection denied from any other failure.  A read or program command reports
\* its error when its words are through; an erase that fails erases nothing.
HwError(with_done, mp_err) ==
    /\ hw.op # "none"
    /\ hw.cnt = 0 \/ hw.op = "erase"
    /\ nerrors < MaxErrors
    /\ nerrors' = nerrors + 1
    /\ hw' = [hw EXCEPT !.op = "none", !.cnt = 0, !.err = TRUE,
                         !.mp_err = mp_err]
    /\ intr_state' = intr_state \cup {"OP_ERROR"}
                        \cup (IF with_done THEN {"OP_DONE"} ELSE {})
    /\ op_status' = op_status \cup {"ERR"}
                        \cup (IF with_done THEN {"DONE"} ELSE {})
    /\ control' = [control EXCEPT !.start = FALSE]
    /\ UNCHANGED <<read_buf, read_index, write_buf, write_index,
                   write_word_addr, data_configured, info_configured,
                   intr_enable, addr, fifo_lvl, mp_bank_cfg, rd_fifo,
                   prog_fifo, flash, pushed, content, owner, events,
                   panicked, mp_vars>>

\* The client works on one page, as each test of tests/flash_ctrl.rs does with
\* its page_num: the first call picks the page, the later ones stay on it.
page_num == IF events = <<>> THEN Pages ELSE {events[1].page}

Next ==
    \/ \E p \in page_num, b \in Buffers : ReadPage(p, b)
    \/ \E p \in page_num, b \in Buffers : WritePage(p, b)
    \/ \E p \in page_num : ErasePage(p)
    \/ \E oc \in BOOLEAN : HandleInterrupt(oc)
    \/ HwRead
    \/ HwProg
    \/ HwErasePage
    \/ HwDone
    \/ \E d \in BOOLEAN, mp \in BOOLEAN : HwError(d, mp)

Spec == Init /\ [][Next]_vars

\* The same machine with one client call and a fair schedule: a command the
\* hardware has started keeps moving until it is done, and handle_interrupt
\* runs whenever an enabled interrupt is pending.  The hardware does not
\* fail.
FairNext ==
    \/ events = <<>> /\ \E p \in Pages, b \in Buffers : ReadPage(p, b)
    \/ events = <<>> /\ \E p \in Pages, b \in Buffers : WritePage(p, b)
    \/ events = <<>> /\ \E p \in Pages : ErasePage(p)
    \/ \E oc \in BOOLEAN : HandleInterrupt(oc)
    \/ HwRead
    \/ HwProg
    \/ HwErasePage
    \/ HwDone

\* The client of the memory-protection interface: it sets, reads and locks
\* regions, and makes its first erase_page call at any point in between.
MPNext ==
    \/ \E p \in MPPageArgs, n \in MPNumPagesArgs, r \in MPRegionArgs,
          c \in FlashMPAdvConfig : SetAdvRegionPerms(p, n, r, c)
    \/ \E r \in MPRegionArgs : ReadAdvRegionPerms(r)
    \/ \E r \in MPRegionArgs : ReadRegionPerms(r)
    \/ \E r \in MPRegionArgs : IsRegionLocked(r)
    \/ \E r \in MPRegionArgs : LockRegionCfg(r)
    \/ events = <<>> /\ \E p \in Pages : ErasePage(p)

MPSpec == Init /\ [][MPNext]_vars

\* The controller as an earlier boot stage may leave it: the bank-erase
\* enables hold any value when the driver is constructed.
BootInit ==
    /\ \E bank_cfg \in [erase_en_0 : BOOLEAN, erase_en_1 : BOOLEAN] :
          InitWith(bank_cfg)
    /\ pure = NoArgs
    /\ spi = SpiHostNew

\* calculate_max_prog_len on its own: every word address of the flash and
\* every count of remaining bytes up to a page.
PureInit ==
    /\ InitWith([erase_en_0 |-> FALSE, erase_en_1 |-> FALSE])
    /\ pure \in [fn : {"args"}, word_addr : 0 .. FlashWords - 1,
                  rem_bytes : 0 .. PAGE_SIZE, out : {0}]
    /\ spi = SpiHostNew

CalculateMaxProgLen ==
    /\ pure.fn = "args"
    /\ pure' = [pure EXCEPT !.fn = "calculate_max_prog_len",
                            !.out = calculate_max_prog_len(pure.word_addr,
                                                           pure.rem_bytes)]
    /\ UNCHANGED <<read_buf, read_index, write_buf, write_index,
                   write_word_addr, data_configured, info_configured,
                   intr_enable, intr_state, control, addr, fifo_lvl,
                   op_status, mp_bank_cfg, hw, rd_fifo, prog_fifo, flash,
                   nerrors, pushed, content, owner, events, panicked,
                   registers, configure_runs, mp_ret, spi, config_pc,
                   console>>

PureNext == CalculateMaxProgLen

PureSpec == PureInit /\ [][PureNext]_vars

BootSpec == BootInit /\ [][FairNext]_vars

FairSpec ==
    /\ Init /\ [][FairNext]_vars
    /\ WF_vars(HwRead) /\ WF_vars(HwProg) /\ WF_vars(HwErasePage)
    /\ WF_vars(HwDone)
    /\ WF_vars(\E oc \in BOOLEAN : HandleInterrupt(oc))

\* ------------------------------------------------------------------------
\* What the client has seen
\* ------------------------------------------------------------------------
CommandComplete(e) == e.res = "CommandComplete"

\* the events the step appends
NewEvents == SubSeq(events', Len(events) + 1, Len(events'))

\* the step is one run of handle_interrupt
HandlerStep ==
    /\ intr_state \cap intr_enable # {}
    /\ intr_state' = {} \/ panicked'
    /\ \E oc \in BOOLEAN : HandleInterrupt(oc)

\* the step is a read_page or write_page call
BufferCallStep ==
    /\ Len(events') > Len(events)
    /\ events'[Len(events) + 1].ev \in {"read_page", "write_page"}

\* a buffer the driver accepted has not come back yet
InFlight == \E b \in Buffers : owner[b] = "driver"

\* indices of the accepted read_page / write_page calls with buffer b, and
\* of the completion callbacks that carried b
AcceptedCalls(b) ==
    {i \in 1 .. Len(events) :
        /\ events[i].ev \in {"read_page", "write_page"}
        /\ events[i].buf = b
        /\ events[i].res = "Ok"}
Completions(b) ==
    {i \in 1 .. Len(events) :
        /\ events[i].ev \in {"read_complete", "write_complete"}
        /\ events[i].buf = b}
SetMax(S) == CHOOSE x \in S : \A y \in S : y <= x

\* accepted erase_page calls whose erase_complete has not been delivered
EraseOutstanding ==
    Cardinality({i \in 1 .. Len(events) :
                    events[i].ev = "erase_page" /\ events[i].res = "Ok"})
      > Cardinality({i \in 1 .. Len(events) :
                        events[i].ev = "erase_complete"})

\* the words of a page buffer, in order
WordsOf(bytes) == [k \in 1 .. PageWords |-> WordAt(bytes, 4 * (k - 1))]

WindowOf(word_addr) == word_addr \div FLASH_PROG_WINDOW_SIZE

TypeOK ==
    /\ read_buf \in Buffers \cup {None}
    /\ write_buf \in Buffers \cup {None}
    /\ read_index \in 0 .. PAGE_SIZE
    /\ write_index \in 0 .. PAGE_SIZE


\* ------------------------------------------------------------------------
\* Claims
\* ------------------------------------------------------------------------

\* C1: every buffer taken by an accepted read_page / write_page comes back
\* exactly once through the matching callback: until then the driver holds it
\* in the cell of its operation (it is never dropped by being overwritten in
\* read_buf / write_buf), no buffer is delivered more often than it was
\* accepted, and each delivery is the callback of the call that supplied it.
C1_CallbackExactlyOnce ==
    \A b \in Buffers :
        /\ Cardinality(Completions(b)) <= Cardinality(AcceptedCalls(b))
        /\ owner[b] = "driver" =>
               /\ AcceptedCalls(b) # {}
               /\ IF events[SetMax(AcceptedCalls(b))].ev = "read_page"
                  THEN read_buf = b ELSE write_buf = b
        /\ \A i \in Completions(b) :
               LET before == {j \in AcceptedCalls(b) : j < i}
               IN /\ before # {}
                  /\ events[i].ev =
                         (IF events[SetMax(before)].ev = "read_page"
                          THEN "read_complete" ELSE "write_complete")

\* C2: while an accepted read or write has not had its callback, a further
\* read_page / write_page returns Err(BUSY), leaves read_buf, write_buf,
\* read_index, write_index and write_word_addr alone and invokes no callback.
C2_SecondCallBusy ==
    [][(InFlight /\ BufferCallStep) =>
           /\ Len(events') = Len(events) + 1
           /\ events'[Len(events')].res = "BUSY"
           /\ owner' = owner
           /\ UNCHANGED <<read_buf, write_buf, read_index, write_index,
                          write_word_addr>>]_vars

\* C3: every program command the controller holds covers a word range inside
\* one programming window, and the words pushed into the program FIFO for the
\* write in flight are the words of its buffer from offset 0 on, in order,
\* each once -- all PAGE_SIZE / 4 of them when write_complete reports
\* CommandComplete.
C3_ProgramRunsInsideWindow ==
    /\ control.op = "prog" =>
           WindowOf(addr \div 4) = WindowOf((addr \div 4) + control.num)
    /\ write_buf # None =>
           pushed = SubSeq(WordsOf(content[write_buf]), 1, write_index \div 4)
    /\ (events # <<>> /\ events[Len(events)].ev = "write_complete"
            /\ CommandComplete(events[Len(events)])) =>
           pushed = WordsOf(content[events[Len(events)].buf])

\* C4: from reset, erase_page(p), write_page(p, W) and read_page(p, R), each
\* run to its CommandComplete callback before the next call, leave in R the
\* bytes of W.
RoundTripDone ==
    /\ Len(events) = 6
    /\ events[1].ev = "erase_page" /\ events[1].res = "Ok"
    /\ events[2].ev = "erase_complete" /\ CommandComplete(events[2])
    /\ events[3].ev = "write_page" /\ events[3].res = "Ok"
    /\ events[3].page = events[1].page
    /\ events[4].ev = "write_complete" /\ CommandComplete(events[4])
    /\ events[4].buf = events[3].buf
    /\ events[5].ev = "read_page" /\ events[5].res = "Ok"
    /\ events[5].page = events[1].page
    /\ events[5].buf # events[3].buf
    /\ events[6].ev = "read_complete" /\ CommandComplete(events[6])
    /\ events[6].buf = events[5].buf

C4_RoundTrip ==
    RoundTripDone =>
        /\ content[events[5].buf] = content[events[3].buf]
        /\ content[events[3].buf] = BufInit(events[3].buf)

C4_Witness == RoundTripDone /\ events[1].page = NumPages - 1

\* C5: after an erase_page(p) whose callback reported CommandComplete, a
\* following read_page(p) that completes returns a buffer of 0xFF bytes,
\* whatever was written to the page before, also after a second erase.
ErasedThenRead ==
    /\ Len(events) >= 4
    /\ LET n == Len(events)
       IN /\ events[n - 3].ev = "erase_page" /\ events[n - 3].res = "Ok"
          /\ events[n - 2].ev = "erase_complete"
          /\ CommandComplete(events[n - 2])
          /\ events[n - 1].ev = "read_page" /\ events[n - 1].res = "Ok"
          /\ events[n - 1].page = events[n - 3].page
          /\ events[n].ev = "read_complete" /\ CommandComplete(events[n])
          /\ events[n].buf = events[n - 1].buf
    \* whatever came before ran to its callback too
    /\ Len(events) = 6 =>
           /\ events[1].ev \in {"erase_page", "write_page"}
           /\ events[1].res = "Ok"
           /\ events[1].page = events[3].page
           /\ events[2].ev \in {"erase_complete", "write_complete"}
           /\ CommandComplete(events[2])
    /\ Len(events) \in {4, 6}

C5_ErasedPageReadsFF ==
    ErasedThenRead =>
        \A i \in 1 .. PAGE_SIZE : content[events[Len(events)].buf][i] = 255

\* C6: a read_page / write_page that returns Err(BUSY) changes nothing: the
\* buffer stays with the caller, no callback is invoked, and read_buf,
\* write_buf, the cursors and the interrupt-enable, FIFO-level, control and
\* address registers are as before the call.
C6_BusyChangesNothing ==
    [][(BufferCallStep /\ events'[Len(events) + 1].res = "BUSY") =>
           /\ Len(events') = Len(events) + 1
           /\ owner' = owner
           /\ UNCHANGED <<read_buf, write_buf, read_index, write_index,
                          write_word_addr, intr_enable, fifo_lvl, control,
                          addr>>]_vars

\* C7: a run of handle_interrupt that sees OP_ERROR hands the read buffer
\* held to read_complete and the write buffer held to write_complete, both
\* with FlashError; afterwards the driver holds no buffer, the interrupts are
\* disabled, and no command was issued.
C7_ErrorIsTerminal ==
    [][(HandlerStep /\ "OP_ERROR" \in intr_state) =>
           /\ read_buf # None =>
                  \E k \in 1 .. Len(NewEvents) :
                      NewEvents[k] = CbEv("read_complete", read_buf,
                                          "FlashError")
           /\ write_buf # None =>
                  \E k \in 1 .. Len(NewEvents) :
                      NewEvents[k] = CbEv("write_complete", write_buf,
                                          "FlashError")
           /\ \A k \in 1 .. Len(NewEvents) :
                  NewEvents[k].ev \in {"read_complete", "write_complete"}
                      => NewEvents[k].res = "FlashError"
           /\ read_buf' = None /\ write_buf' = None
           /\ intr_enable' = {}
           /\ UNCHANGED <<control, addr, hw, prog_fifo, pushed>>]_vars

C7_Witness ==
    /\ events # <<>>
    /\ events[Len(events)] \in
           {CbEv(cb, b, "FlashError") :
                cb \in {"read_complete", "write_complete"}, b \in Buffers}
    /\ read_buf = None /\ write_buf = None /\ intr_enable = {}

\* C8: read_complete reports CommandComplete only with read_index =
\* PAGE_SIZE and write_complete only with write_index = PAGE_SIZE; a run of
\* handle_interrupt that reaches the OP_DONE branch with a buffer of the
\* finished kind held and fewer bytes transferred keeps the buffer, re-arms
\* the interrupts and invokes no callback.
C8_CompleteOnlyWhenFull ==
    [][HandlerStep =>
           /\ \A k \in 1 .. Len(NewEvents) :
                  /\ (NewEvents[k].ev = "read_complete"
                         /\ CommandComplete(NewEvents[k]))
                       => read_index' = PAGE_SIZE
                  /\ (NewEvents[k].ev = "write_complete"
                         /\ CommandComplete(NewEvents[k]))
                       => write_index' = PAGE_SIZE
           /\ ("OP_DONE" \in intr_state /\ "OP_ERROR" \notin intr_state
                  /\ ~panicked' /\ control'.op = "read"
                  /\ read_buf # None /\ read_index' < PAGE_SIZE)
                => (read_buf' = read_buf /\ intr_enable' = EnabledIrqs
                       /\ events' = events)
           /\ ("OP_DONE" \in intr_state /\ "OP_ERROR" \notin intr_state
                  /\ ~panicked' /\ control'.op = "prog"
                  /\ write_buf # None /\ write_index' < PAGE_SIZE)
                => (write_buf' = write_buf /\ intr_enable' = EnabledIrqs
                       /\ events' = events)]_vars

\* OP_DONE was handled with part of the page still in the read FIFO: the
\* buffer stayed and the interrupts are armed again
C8_Witness ==
    /\ read_buf # None /\ control.op = "read"
    /\ hw.op = "none" /\ ~hw.err
    /\ intr_state = {} /\ intr_enable = EnabledIrqs
    /\ 0 < read_index /\ read_index < PAGE_SIZE
    /\ \A i \in 1 .. Len(events) : events[i].ev # "read_complete"

\* C9: when an erase command ends with a hardware error, the run of
\* handle_interrupt that sees its OP_ERROR invokes erase_complete once, with
\* an error other than CommandComplete; erase_complete reports
\* CommandComplete only for an erase the hardware finished without error.
C9_EraseErrorSurfaced ==
    [][HandlerStep =>
           /\ ("OP_ERROR" \in intr_state /\ control.op = "erase"
                  /\ hw.op = "none" /\ hw.err)
                => /\ Len(NewEvents) = 1
                   /\ NewEvents[1].ev = "erase_complete"
                   /\ ~CommandComplete(NewEvents[1])
           /\ \A k \in 1 .. Len(NewEvents) :
                  (NewEvents[k].ev = "erase_complete"
                      /\ CommandComplete(NewEvents[k]))
                    => (hw.op = "none" /\ ~hw.err)]_vars

\* C10: the controller is Idle or in exactly one of ReadInProgress,
\* WriteInProgress, EraseInProgress: it never holds a read buffer and a write
\* buffer together, and no erase is outstanding while it holds a buffer.
C10_OneOperationState ==
    /\ ~(read_buf # None /\ write_buf # None)
    /\ EraseOutstanding => (read_buf = None /\ write_buf = None)

\* the client has had more Ok returns of the call than callbacks of its kind
Outstanding(call, cb) ==
    Cardinality({i \in 1 .. Len(events) :
                    events[i].ev = call /\ events[i].res = "Ok"})
        > Cardinality({i \in 1 .. Len(events) : events[i].ev = cb})

\* C11: with the hardware and the interrupt handler scheduled fairly, every
\* accepted read_page, write_page and erase_page eventually gets its
\* completion callback.
C11_AcceptedEventuallyCompletes ==
    /\ Outstanding("read_page", "read_complete")
           ~> ~Outstanding("read_page", "read_complete")
    /\ Outstanding("write_page", "write_complete")
           ~> ~Outstanding("write_page", "write_complete")
    /\ Outstanding("erase_page", "erase_complete")
           ~> ~Outstanding("erase_page", "erase_complete")

\* the hardware reported that the memory protection denied the command in
\* flight, and the driver has not served that report yet
MPViolationPending ==
    /\ "OP_ERROR" \in intr_state
    /\ hw.err /\ hw.mp_err

\* C12: when the hardware reports a memory-protection violation for the
\* read, write or erase in flight, the run of handle_interrupt that serves
\* the report invokes that operation's callback with FlashMPError, and with
\* neither FlashError nor CommandComplete.
C12_MPViolationReported ==
    [][HandlerStep /\ MPViolationPending
          => /\ NewEvents # <<>>
             /\ \A i \in 1 .. Len(NewEvents) :
                    NewEvents[i].res = "FlashMPError"]_vars

\* the step is a call of the memory-protection interface
MPCallStep(call) ==
    /\ mp_ret'.n = mp_ret.n + 1
    /\ mp_ret'.call = call

\* everything but the record of the last memory-protection call
HardwareVisible ==
    <<read_buf, read_index, write_buf, write_index, write_word_addr,
      data_configured, info_configured, intr_enable, intr_state, control,
      addr, fifo_lvl, op_status, mp_bank_cfg, hw, rd_fifo, prog_fifo, flash,
      registers, configure_runs>>

\* C13: set_region_perms / set_adv_region_perms answers a page_number past
\* the partition and a region_num past the last region with NOSUPPORT, a
\* num_pages larger than the pages left from an in-range page_number (of an
\* in-range region) with INVAL, and in each of these cases leaves every
\* register and all other hardware-visible state as it was.
C13_SetRegionPermsValidates ==
    [][MPCallStep("set_adv_region_perms") =>
          LET c == mp_ret'
              bad_page == c.page >= NumPages
              bad_region == c.region >= FLASH_MP_MAX_CFGS
              bad_len == c.num_pages > NumPages - c.page
          IN /\ bad_page => c.ret = "NOSUPPORT"
             /\ bad_region => c.ret = "NOSUPPORT"
             /\ bad_len /\ ~bad_page /\ ~bad_region => c.ret = "INVAL"
             /\ bad_page \/ bad_region \/ bad_len
                   => UNCHANGED HardwareVisible]_vars

\* a length the partition holds, but not from the given page on, was
\* rejected after an earlier call had set a region up
C13_Witness ==
    /\ mp_ret.call = "set_adv_region_perms"
    /\ mp_ret.ret = "INVAL"
    /\ mp_ret.num_pages <= NumPages
    /\ \E r \in FlashRegion : registers.mp_region_cfg[r].en = Set

\* C14: after set_adv_region_perms(page, n, r, P) returned Ok on a region
\* that is not locked, read_adv_region_perms(r) returns exactly P.
C14_PermsRoundTrip ==
    [][\A r \in FlashRegion :
          /\ MPCallStep("set_adv_region_perms")
          /\ mp_ret'.ret = "Ok" /\ mp_ret'.region = r
          /\ region_cfg_regwen(Cur, r)
          => LET got == read_adv_region_perms(Cur, r)'
             IN got.mp_ret.ret = "Ok" /\ got.mp_ret.val = mp_ret'.val]_vars

\* region 7 was set to a mixed tuple and read back
C14_Witness ==
    /\ mp_ret.call = "read_adv_region_perms"
    /\ mp_ret.region = FLASH_MP_MAX_CFGS - 1
    /\ mp_ret.ret = "Ok"
    /\ mp_ret.val.read_en /\ ~mp_ret.val.write_en /\ mp_ret.val.he_en
    /\ ~mp_ret.val.erase_en

\* C15: lock_region_cfg(r) returning Ok locks r; a locked region stays
\* locked, is_region_locked(r) answers Ok(true) for it, and its permissions
\* and its base and size do not change in any later step, a
\* set_region_perms on r and the driver's own partition setup included.
C15_LockIsPermanent ==
    [][/\ \A r \in FlashRegion :
             /\ MPCallStep("lock_region_cfg")
             /\ mp_ret'.ret = "Ok" /\ mp_ret'.region = r
             => ~region_cfg_regwen(Cur, r)'
       /\ \A r \in FlashRegion :
             ~region_cfg_regwen(Cur, r) =>
                /\ ~region_cfg_regwen(Cur, r)'
                /\ is_region_locked(Cur, r).mp_ret.ret = "Ok"
                /\ is_region_locked(Cur, r).mp_ret.val = TRUE
                /\ registers'.mp_region_cfg[r] = registers.mp_region_cfg[r]
                /\ registers'.mp_region[r] = registers.mp_region[r]]_vars

\* a set_adv_region_perms on a locked region came back and the region
\* still holds what it held before
C15_Witness ==
    /\ mp_ret.call = "set_adv_region_perms"
    /\ mp_ret.ret = "Ok"
    /\ ~region_cfg_regwen(Cur, mp_ret.region)
    /\ mp_ret.val.read_en
    /\ registers.mp_region_cfg[mp_ret.region].rd_en = Clear

\* C16: lock_region_cfg and read_region_perms answer a region_num of 8 or
\* more with NOSUPPORT and change no state; is_region_locked,
\* lock_region_cfg and read_region_perms answer Ok for the regions 0 .. 7.
C16_RegionIndexChecked ==
    [][/\ \A call \in {"lock_region_cfg", "read_region_perms"} :
             MPCallStep(call) /\ mp_ret'.region >= FLASH_MP_MAX_CFGS
                => mp_ret'.ret = "NOSUPPORT" /\ UNCHANGED HardwareVisible
       /\ \A call \in {"lock_region_cfg", "read_region_perms",
                        "is_region_locked"} :
             MPCallStep(call) /\ mp_ret'.region \in FlashRegion
                => mp_ret'.ret = "Ok"]_vars

\* a lock of region 8 was refused after a lock of a real region
C16_Witness ==
    /\ mp_ret.call = "lock_region_cfg"
    /\ mp_ret.ret = "NOSUPPORT"
    /\ \E r \in FlashRegion : ~region_cfg_regwen(Cur, r)

\* the values of all fields of the protection configuration registers
ConfigFieldValues ==
    {registers.default_region[f] : f \in DEFAULT_REGION}
      \cup UNION {{registers.mp_region_cfg[r][f] : f \in MP_REGION_CFG} :
                     r \in FlashRegion}
      \cup {registers.bank1_info0_page_cfg[region_num][f] :
                f \in BANK_INFO_PAGE_CFG}

\* C17: every permission field, the enable field included, of every region,
\* default-region and info-page configuration register holds 0x6 or 0x9
\* after every write of the driver.
C17_SentinelFieldsOnly == ConfigFieldValues \subseteq {Set, Clear}

\* C18: data_configured and info_configured never go back to false; once
\* the first read_page, write_page or erase_page call has been made both
\* are true; configure_data_partition and configure_info_partition each
\* run at most once.
C18_ConfiguredOnce ==
    [][/\ data_configured => data_configured'
       /\ info_configured => info_configured'
       /\ events' # <<>> => data_configured' /\ info_configured'
       /\ configure_runs'.data <= 1
       /\ configure_runs'.info <= 1]_vars

\* a second call was made and the partitions were set up by the first only
C18_Witness ==
    /\ NumCalls(events) >= 2
    /\ \E i \in 1 .. Len(events) : events[i].ev = "write_page"
    /\ configure_runs = [data |-> 1, info |-> 1]
    /\ data_configured /\ info_configured

\* C19: erase_page clears ERASE_EN_0 and ERASE_EN_1 before it writes the
\* erase command to CONTROL: whenever the command the controller was last
\* given is an erase, both bank-erase enables were clear when it started,
\* and it selects a page erase.
C19_PageEraseOnly ==
    control.op = "erase" =>
        /\ ~hw.bank_erase_en.erase_en_0
        /\ ~hw.bank_erase_en.erase_en_1
        /\ control.erase_sel = "PAGE"

\* erase_page ran, both enables are clear and the hardware has ended the
\* page erase
C19_Witness ==
    /\ control.op = "erase"
    /\ \E i \in 1 .. Len(events) : events[i].ev = "erase_page"
    /\ ~mp_bank_cfg.erase_en_0 /\ ~mp_bank_cfg.erase_en_1
    /\ "DONE" \in op_status
    /\ configure_runs.data = 1

\* the step delivers a completion callback with CommandComplete
CompletionDelivered ==
    \E i \in 1 .. Len(NewEvents) :
        /\ NewEvents[i].ev \in CbNames
        /\ CommandComplete(NewEvents[i])

\* C20: when a run of handle_interrupt has delivered a completion callback
\* and the controller holds no buffer afterwards, all interrupts are
\* disabled when the run returns.
C20_QuietAfterCompletion ==
    [][HandlerStep /\ CompletionDelivered
          /\ read_buf' = None /\ write_buf' = None
          => intr_enable' = {}]_vars

\* the callback that completes a call
CallbackOf(call) ==
    IF call = "read_page" THEN "read_complete"
    ELSE IF call = "write_page" THEN "write_complete"
    ELSE "erase_complete"

\* the accepted calls and the delivered callbacks, each in order
AcceptedSeq == SelectSeq(events, LAMBDA e : e.ev \in CallNames /\ e.res = "Ok")
CallbackSeq == SelectSeq(events, LAMBDA e : e.ev \in CbNames)

\* C21: completion callbacks come in the order in which their operations
\* were accepted, each of the kind of its operation: the k-th callback
\* delivered is the callback of the k-th accepted call.
C21_CallbacksInAcceptanceOrder ==
    /\ Len(CallbackSeq) <= Len(AcceptedSeq)
    /\ \A k \in 1 .. Len(CallbackSeq) :
          CallbackSeq[k].ev = CallbackOf(AcceptedSeq[k].ev)

\* C23: every program command the driver writes to CONTROL has
\* NUM = run_length - 1 with 1 <= run_length <= 16, and the computation of
\* that value never fails, for every PROG_EMPTY interrupt served while a
\* write buffer is held.
C23_ProgRunLength ==
    /\ ~panicked
    /\ control.op = "prog" =>
          control.num + 1 \in 1 .. FLASH_PROG_WINDOW_SIZE

\* C24: the words waiting in the program FIFO belong to the program command
\* the hardware holds: there are never more of them than that command
\* still expects, and none while no program command is running.
C24_WordsMatchRun ==
    /\ hw.op = "prog" => Len(prog_fifo) <= hw.cnt
    /\ hw.op # "prog" => prog_fifo = <<>>

\* the step is an erase_page call
EraseCallStep ==
    /\ Len(events') > Len(events)
    /\ events'[Len(events) + 1].ev = "erase_page"

\* C25: an erase_page called while the controller holds the buffer of a
\* read or write whose callback has not been delivered returns an error
\* and leaves the address and control registers as they are.
C25_EraseWhileBusyRejected ==
    [][InFlight /\ EraseCallStep =>
          /\ events'[Len(events) + 1].res # "Ok"
          /\ UNCHANGED <<control, addr>>]_vars

\* C26: calculate_max_prog_len(word_addr, rem_bytes) is the smaller of
\* rem_bytes div 4 and 16 - (word_addr mod 16): at most 16, at least 1 when
\* rem_bytes >= 4, and word_addr + result does not pass the next multiple
\* of 16 above word_addr.
C26_MaxProgLen ==
    pure.fn = "calculate_max_prog_len" =>
        /\ pure.out = Min(pure.rem_bytes \div 4, 16 - (pure.word_addr % 16))
        /\ pure.out <= 16
        /\ pure.rem_bytes >= 4 => pure.out >= 1
        /\ pure.word_addr + pure.out <= ((pure.word_addr \div 16) + 1) * 16

\* a run cut by the window: 11 words from word 21 with a page left
C26_Witness ==
    /\ pure.fn = "calculate_max_prog_len"
    /\ pure.word_addr = 21
    /\ pure.rem_bytes = PAGE_SIZE
    /\ pure.out = 11

\* the step is a read_page call that returns Ok
ReadAcceptedStep ==
    /\ Len(events') > Len(events)
    /\ events'[Len(events) + 1].ev = "read_page"
    /\ events'[Len(events) + 1].res = "Ok"

\* C27: when read_page(p, buf) returns Ok, read_buf holds buf, read_index
\* is 0, the controller has been given one READ command with start address
\* p * PAGE_SIZE and NUM = PAGE_SIZE / 4 - 1 and runs it for PAGE_SIZE / 4
\* words, the RD_LVL, OP_DONE and OP_ERROR interrupts are enabled and the
\* read FIFO level is set.
C27_ReadPageStartsOneRead ==
    [][ReadAcceptedStep =>
          LET call == events'[Len(events) + 1]
          IN /\ Len(events') = Len(events) + 1
             /\ read_buf' = call.buf
             /\ read_index' = 0
             /\ control' = [op |-> "read", num |-> (PAGE_SIZE \div 4) - 1,
                            start |-> TRUE, erase_sel |-> "PAGE"]
             /\ addr' = call.page * PAGE_SIZE
             /\ hw'.op = "read" /\ hw'.cnt = PAGE_SIZE \div 4
             /\ hw'.waddr = (call.page * PAGE_SIZE) \div 4
             /\ {"RD_LVL", "OP_DONE", "OP_ERROR"} \subseteq intr_enable'
             /\ fifo_lvl'.rd = RD_FIFO_LEVEL]_vars

\* a second read was accepted after the first had completed
C27_Witness ==
    /\ Len(events) >= 3
    /\ events[Len(events)].ev = "read_page"
    /\ events[Len(events)].res = "Ok"
    /\ events[Len(events) - 1].ev = "read_complete"
    /\ CommandComplete(events[Len(events) - 1])
    /\ read_index = 0
    /\ hw.op = "read"

\* C28: read_index and write_index are multiples of 4 between 0 and
\* PAGE_SIZE in every reachable state, so every buffer access of the drain
\* loop and of the push loops (four bytes from the index on) is inside the
\* page buffer.
C28_IndicesInBounds ==
    /\ read_index % 4 = 0 /\ read_index \in 0 .. PAGE_SIZE
    /\ write_index % 4 = 0 /\ write_index \in 0 .. PAGE_SIZE

\* the drain loop stopped at the end of the buffer with words left in the
\* read FIFO
C28_Witness ==
    /\ read_buf # None
    /\ read_index = PAGE_SIZE
    /\ rd_fifo # <<>>

\* the page of the write the controller holds the buffer of: the page of
\* the last accepted write_page call
WritePageNumber ==
    LET accepted == {i \in 1 .. Len(events) :
                        events[i].ev = "write_page" /\ events[i].res = "Ok"}
    IN events[SetMax(accepted)].page

\* C29: while a write buffer is held, write_word_addr is the word address
\* of the page plus the number of words taken from the buffer,
\* (page_number * PAGE_SIZE) / 4 + write_index / 4.
C29_AddressFollowsIndex ==
    write_buf # None =>
        write_word_addr =
            (WritePageNumber * PAGE_SIZE) \div 4 + write_index \div 4

\* the second page is being written, PROG_FULL has ended a push loop
\* inside a run and the handler has pushed the rest of that run
C29_Witness ==
    /\ write_buf # None
    /\ WritePageNumber = 1
    /\ write_index = 4 * FLASH_PROG_WINDOW_SIZE
    /\ write_word_addr = PageWords + FLASH_PROG_WINDOW_SIZE
    /\ Len(prog_fifo) = ProgFifoDepth

\* the step is a run of handle_interrupt that serves the OP_DONE of an
\* erase: the erase command has ended without error and CONTROL still
\* holds it
EraseDoneStep ==
    /\ "OP_DONE" \in intr_state
    /\ control.op = "erase"
    /\ hw.op = "none" /\ ~hw.err
    /\ HandlerStep

MaxCommandLen == 4 * TxFifoWords - 1

div_up(a, b) == (a + (b - 1)) \div b

\* status::TXFULL, status::TXEMPTY
TXFULL(s) == s.txqd >= TxFifoWords
TXEMPTY(s) == s.txqd = 0

SpiPanic(s) == [s EXCEPT !.panicked = TRUE]

SpiLog(s, e) == [s EXCEPT !.events = Append(@, e)]

\* enable_interrupts
spi_enable_interrupts(s) ==
    [s EXCEPT !.intr_enable = {"ERROR", "SPI_EVENT"}]

\* start_transceive: the command covers the words in the TX FIFO, at most
\* u8::MAX bytes; the hardware starts on it; both interrupts are enabled.
start_transceive(s) ==
    LET txfifo_num_bytes == s.txqd * 4
        num_transfer_bytes == IF txfifo_num_bytes > MaxCommandLen
                              THEN MaxCommandLen ELSE txfifo_num_bytes
    IN  spi_enable_interrupts(
            [s EXCEPT !.active = div_up(num_transfer_bytes, 4) > 0])

\* The loop of read_write_bytes and of spi_transfer_progress: one word of up
\* to four bytes of the transmit buffer per turn, until the FIFO holds
\* TxFifoWords words or the last byte has been put in.
RECURSIVE TxPushLoop(_)
TxPushLoop(s) ==
    IF ~(~TXFULL(s) /\ s.txqd < TxFifoWords) THEN s
    ELSE LET n == IF s.tx_offset >= s.tx_len THEN 0
                  ELSE Min(4, s.tx_len - s.tx_offset)
             t == [s EXCEPT !.tx_offset = @ + n, !.txqd = @ + 1]
         IN  IF t.tx_offset >= t.tx_len THEN t ELSE TxPushLoop(t)

\* spi_transfer_progress: the transmit buffer is taken (unwrap), the TX FIFO
\* must be empty and the hardware idle, the next words go in and the next
\* command is issued.
spi_transfer_progress(s) ==
    IF s.tx_buf = None \/ s.txqd # 0 \/ s.active THEN SpiPanic(s)
    ELSE start_transceive(TxPushLoop(s))

\* reset_internal_state
reset_internal_state(s) ==
    [s EXCEPT !.busy = FALSE, !.tx_len = 0, !.rx_len = 0,
              !.tx_offset = 0, !.rx_offset = 0]

\* continue_transfer: the receive buffer is taken (unwrap); one word is read
\* from the RX FIFO for every four bytes sent since the last run and its
\* bytes are stored while there is room; then either the transfer is
\* complete, the client gets both buffers and the state is reset, or the
\* receive buffer is put back and the next words are sent.
continue_transfer(s) ==
    IF s.rx_buf = None THEN SpiPanic(s)
    ELSE
    LET rx_buf == s.rx_buf
        rx_len == s.tx_offset - s.rx_offset
        read_cycles == div_up(rx_len, 4)
        stored == IF s.rx_offset >= s.rx_len THEN 0
                  ELSE Min(4 * read_cycles, s.rx_len - s.rx_offset)
        rd == [s EXCEPT !.rx_buf = None,
                        !.rxqd = IF @ > read_cycles THEN @ - read_cycles
                                 ELSE 0,
                        !.rx_offset = @ + stored]
    IN  IF rd.tx_offset = rd.tx_len
        THEN LET cb == IF rd.client /\ rd.tx_buf # None
                       THEN SpiLog([rd EXCEPT
                                !.tx_buf = None,
                                !.owner = [b \in SpiBuffers |->
                                    IF b \in {rd.tx_buf, rx_buf}
                                    THEN "client" ELSE rd.owner[b]]],
                                [ev |-> "read_write_done",
                                 tx |-> rd.tx_buf, rx |-> rx_buf,
                                 len |-> rd.tx_len, res |-> "Ok",
                                 tx_offset |-> rd.tx_offset])
                       ELSE [rd EXCEPT !.owner[rx_buf] = "dropped"]
             IN  reset_internal_state(
                     [cb EXCEPT !.event_en = @ \ {"TXEMPTY"}])
        ELSE spi_transfer_progress([rd EXCEPT !.rx_buf = rx_buf])

\* read_write_bytes, once past the busy test.
read_write_bytes(s, tx_buf, rx_buf, len) ==
    LET s1 == [s EXCEPT !.tx_len = Min(len, SpiBufLen[tx_buf]),
                        !.busy = TRUE]
    IN  \* the word written first is expected to be dropped by the hardware
        IF s1.txqd # 0 THEN SpiPanic(s1)
        ELSE
        LET s2 == [TxPushLoop(s1) EXCEPT !.tx_buf = tx_buf,
                                         !.owner[tx_buf] = "tx_buf"]
            s3 == IF rx_buf # None
                  THEN [s2 EXCEPT
                          !.rx_len = Min(s2.tx_len, SpiBufLen[rx_buf]),
                          !.rx_buf = rx_buf,
                          !.owner[rx_buf] = "rx_buf"]
                  ELSE s2
        IN  start_transceive(s3)

\* handle_interrupt
spi_handle_interrupt(s) ==
    LET irq == s.intr_state
        \* disable_interrupts
        s0 == [s EXCEPT !.intr_enable = {}]
        \* no error is raised by the hardware modelled here: the ERROR
        \* branch only clears the interrupt
        s1 == IF "ERROR" \in irq
              THEN [s0 EXCEPT !.intr_state = @ \ {"ERROR"}]
              ELSE s0
    IN  IF "SPI_EVENT" \in irq
        THEN LET status == [txempty |-> TXEMPTY(s1), active |-> s1.active]
                 s2 == [s1 EXCEPT !.intr_state = @ \ {"SPI_EVENT"}]
                 s3 == IF status.txempty /\ s2.busy
                       THEN continue_transfer(s2) ELSE s2
             IN  IF status.active /\ ~s3.panicked
                 THEN spi_enable_interrupts(s3) ELSE s3
        ELSE s1

\* The other variables stay as they are while the SPI host acts.
SpiCommit(s) ==
    /\ spi' = s
    /\ UNCHANGED flash_vars
    /\ UNCHANGED <<pure, config_pc, console>>

\* init(): TXEMPTY is the one event enabled, both interrupts are enabled.
\* The TX FIFO is empty at this point, so the event may be raised at once.
\* The kernel is a release build or a debug build.
SpiInit ==
    /\ ~spi.initialized
    /\ \E raised \in BOOLEAN, debug \in BOOLEAN :
          SpiCommit([spi EXCEPT
              !.debug_assertions = debug,
              !.initialized = TRUE,
              !.event_en = {"TXEMPTY"},
              !.intr_enable = {"ERROR", "SPI_EVENT"},
              !.intr_state = IF raised THEN @ \cup {"SPI_EVENT"} ELSE @])

\* set_client
SpiSetClient ==
    /\ ~spi.client
    /\ SpiCommit([spi EXCEPT !.client = TRUE])

SpiCalls == SelectSeq(spi.events, LAMBDA e : e.ev = "read_write_bytes")

\* The client calls read_write_bytes with buffers it holds, once the driver
\* is initialised and the client is set.
SpiReadWriteBytes(tx_buf, rx_buf, len) ==
    /\ ~spi.panicked
    /\ spi.initialized /\ spi.client
    /\ Len(SpiCalls) < MaxSpiCalls
    /\ spi.owner[tx_buf] = "client"
    /\ rx_buf # None => (rx_buf # tx_buf /\ spi.owner[rx_buf] = "client")
    /\ IF /\ spi.debug_assertions
          /\ (spi.busy \/ spi.tx_buf # None \/ spi.rx_buf # None)
       \* debug_assert!(!self.busy.get()) and the two that follow it
       THEN SpiCommit(SpiPanic(SpiLog(spi, [ev |-> "read_write_bytes",
                                   tx |-> tx_buf, rx |-> rx_buf,
                                   len |-> len, res |-> "panic",
                                   tx_offset |-> spi.tx_offset])))
       ELSE IF spi.busy \/ TXFULL(spi)
       THEN SpiCommit(SpiLog(spi, [ev |-> "read_write_bytes",
                                   tx |-> tx_buf, rx |-> rx_buf,
                                   len |-> len, res |-> "BUSY",
                                   tx_offset |-> spi.tx_offset]))
       ELSE SpiCommit(read_write_bytes(
                SpiLog(spi, [ev |-> "read_write_bytes",
                             tx |-> tx_buf, rx |-> rx_buf,
                             len |-> len, res |-> "Ok",
                             tx_offset |-> spi.tx_offset]),
                tx_buf, rx_buf, len))

\* The kernel runs the handler while an enabled interrupt is pending.
SpiHandleInterrupt ==
    /\ ~spi.panicked
    /\ spi.intr_state \cap spi.intr_enable # {}
    /\ SpiCommit(spi_handle_interrupt(spi))

\* The hardware sends one word of the TX FIFO and puts the word received
\* into the RX FIFO; with the last word of the command it becomes idle and
\* raises TXEMPTY, which sets the event interrupt if event_en enables it.
SpiHwTransfer ==
    /\ spi.active /\ spi.txqd > 0
    /\ LET last == spi.txqd = 1
       IN  SpiCommit([spi EXCEPT
               !.txqd = @ - 1,
               !.rxqd = @ + 1,
               !.active = ~last,
               !.intr_state = IF last /\ "TXEMPTY" \in spi.event_en
                              THEN @ \cup {"SPI_EVENT"} ELSE @])

SpiNext ==
    \/ SpiInit
    \/ SpiSetClient
    \/ \E tx_buf \in SpiBuffers, rx_buf \in SpiBuffers \cup {None},
          len \in SpiLens : SpiReadWriteBytes(tx_buf, rx_buf, len)
    \/ SpiHandleInterrupt
    \/ SpiHwTransfer

\* The hardware keeps sending and the kernel keeps serving interrupts.
SpiSpec ==
    /\ Init /\ [][SpiNext]_vars
    /\ WF_vars(SpiHwTransfer)
    /\ WF_vars(SpiHandleInterrupt)

\* the accepted transfers with a receive buffer, and the completions
SpiAccepted == SelectSeq(spi.events, LAMBDA e :
                   e.ev = "read_write_bytes" /\ e.res = "Ok")
SpiDone == SelectSeq(spi.events, LAMBDA e : e.ev = "read_write_done")

\* read_write_done number k answers accepted transfer number k as the
\* interface requires
SpiDoneMatches(k) ==
    /\ SpiDone[k].tx = SpiAccepted[k].tx
    /\ SpiDone[k].rx = SpiAccepted[k].rx
    /\ SpiDone[k].len = Min(SpiAccepted[k].len, SpiBufLen[SpiAccepted[k].tx])
    /\ SpiDone[k].res = "Ok"
    /\ SpiDone[k].tx_offset = SpiDone[k].len

\* a step that invokes read_write_done
SpiDoneStep ==
    /\ Len(spi'.events) > Len(spi.events)
    /\ spi'.events[Len(spi'.events)].ev = "read_write_done"

\* C22: every read_write_bytes(tx, Some(rx), len) that returned Ok is
\* answered by exactly one read_write_done, with the same tx buffer, the same
\* rx buffer, tx_len = min(len, tx.len()) and Ok, invoked once tx_offset has
\* reached tx_len; the step that invokes it leaves busy false, the four
\* counters 0 and no buffer with the driver.
C22_TransferCompletesOnce ==
    /\ [](/\ Len(SpiDone) <= Len(SpiAccepted)
          /\ \A k \in 1 .. Len(SpiDone) : SpiDoneMatches(k))
    /\ [][SpiDoneStep =>
            /\ Len(spi'.events) = Len(spi.events) + 1
            /\ ~spi'.busy
            /\ spi'.tx_len = 0 /\ spi'.rx_len = 0
            /\ spi'.tx_offset = 0 /\ spi'.rx_offset = 0
            /\ spi'.tx_buf = None /\ spi'.rx_buf = None]_vars
    /\ \A k \in 1 .. MaxSpiCalls :
          (Len(SpiAccepted) >= k /\ SpiAccepted[k].rx # None)
              ~> (Len(SpiDone) >= k)


\* a step that is a call of read_write_bytes
SpiCallStep ==
    /\ Len(spi'.events) > Len(spi.events)
    /\ spi'.events[Len(spi.events) + 1].ev = "read_write_bytes"

\* the last thing that happened is a call answered with Err(BUSY)
SpiLastRejected ==
    /\ spi.events # <<>>
    /\ spi.events[Len(spi.events)].ev = "read_write_bytes"
    /\ spi.events[Len(spi.events)].res = "BUSY"

\* C32: a read_write_bytes call made while a transfer is in progress or the
\* TX FIFO is full returns Err(BUSY) and changes nothing in the driver or
\* its registers (the buffers stay with the caller), and the transfer in
\* flight still completes with its own buffers.
C32_BusyCallRejected ==
    /\ [][(SpiCallStep /\ (spi.busy \/ TXFULL(spi))) =>
            /\ spi'.events[Len(spi.events) + 1].res = "BUSY"
            /\ spi' = [spi EXCEPT !.events = spi'.events]]_vars
    /\ (SpiLastRejected /\ spi.rx_buf # None)
          ~> (/\ Len(SpiDone) > 0
              /\ Len(SpiDone) = Len(SpiAccepted)
              /\ SpiDoneMatches(Len(SpiDone)))

\* a step that is a run of handle_interrupt
SpiHandlerStep ==
    /\ ~spi.panicked
    /\ spi.intr_state \cap spi.intr_enable # {}
    /\ spi' = spi_handle_interrupt(spi)

\* C33: a transfer accepted with rx_buf = None completes: handling TXEMPTY
\* for it does not panic, and read_write_done is eventually invoked with the
\* tx buffer and None, leaving busy false.
C33_NoRxTransferCompletes ==
    /\ [][(SpiHandlerStep /\ spi.busy /\ spi.rx_buf = None) =>
            ~spi'.panicked]_vars
    /\ \A k \in 1 .. MaxSpiCalls :
          (Len(SpiAccepted) >= k /\ SpiAccepted[k].rx = None)
              ~> (/\ Len(SpiDone) >= k
                  /\ SpiDone[k].tx = SpiAccepted[k].tx
                  /\ SpiDone[k].rx = None)

\* calculate_tsck_scaler: the u32 scaler the function computes and the u16
\* it returns (scaler as u16).
calculate_tsck_scaler(rate) ==
    IF rate > cpu_clk \div 2
    THEN [res |-> "NOSUPPORT", scaler |-> 0, val |-> 0]
    ELSE LET scaler0 == (cpu_clk \div (2 * rate)) - 1
             scaler == IF cpu_clk % (2 * rate) # 0 /\ scaler0 # 255
                       THEN scaler0 + 1 ELSE scaler0
         IN  [res |-> "Ok", scaler |-> scaler, val |-> scaler % 65536]

\* set_rate: on Ok the scaler goes into the 16-bit field CLKDIV_0 and the
\* rate into tsclk.  The entry logged holds what get_rate returns next.
set_rate(s, rate) ==
    LET r == calculate_tsck_scaler(rate)
        s1 == IF r.res = "Ok"
              THEN [s EXCEPT !.clkdiv_0 = r.val % 65536, !.tsclk = rate]
              ELSE s
    IN  SpiLog(s1, [ev |-> "set_rate", rate |-> rate, res |-> r.res,
                    scaler |-> r.scaler,
                    tsclk_before |-> s.tsclk, clkdiv_before |-> s.clkdiv_0,
                    clkdiv_0 |-> s1.clkdiv_0, get_rate |-> s1.tsclk])

SpiSetRate(rate) ==
    /\ spi.initialized
    /\ Len(spi.events) < MaxRateCalls
    /\ SpiCommit(set_rate(spi, rate))

RateNext ==
    \/ SpiInit
    \/ \E rate \in SpiRates : SpiSetRate(rate)

RateSpec == Init /\ [][RateNext]_vars

\* C34: set_rate answers NOSUPPORT exactly for a rate above half the CPU
\* clock and then leaves the stored rate and CLKDIV as they were; otherwise
\* the scaler fits the 16-bit CLKDIV field, the clock it gives,
\* cpu_clk / (2 * (CLKDIV + 1)), is not above the rate asked for, and
\* get_rate returns that rate.
C34_ScalerFitsAndBoundsRate ==
    \A i \in 1 .. Len(spi.events) :
        LET e == spi.events[i]
        IN  /\ (e.res = "NOSUPPORT") <=> (e.rate > cpu_clk \div 2)
            /\ e.res = "NOSUPPORT" =>
                  /\ e.get_rate = e.tsclk_before
                  /\ e.clkdiv_0 = e.clkdiv_before
            /\ e.res = "Ok" =>
                  /\ e.scaler < 65536
                  /\ e.clkdiv_0 = e.scaler
                  /\ cpu_clk <= 2 * e.rate * (e.clkdiv_0 + 1)
                  /\ e.get_rate = e.rate

\* ------------------------------------------------------------------------
\* Partition configuration, one register write at a time
\* ------------------------------------------------------------------------

\* What an earlier boot stage may have left in a region's configuration:
\* the region enabled or not, with all, none or one of its permissions.
StaleFields(fields) ==
    { [f \in fields |->
          IF f = "en" THEN en
          ELSE IF f \in perms THEN Set ELSE Clear] :
      en \in {Set, Clear},
      perms \in {fields, {}, {"rd_en"}} }

\* ... and in its base and size
StaleRegions ==
    { [base |-> 0, size |-> 0], [base |-> 0, size |-> 1],
      [base |-> FLASH_PAGES_PER_BANK, size |-> 1], [base |-> 10, size |-> 3] }

\* what the configuration writes
DataPartitionCfg ==
    [rd_en |-> Set, prog_en |-> Set, erase_en |-> Set, scramble_en |-> Clear,
     ecc_en |-> Clear, he_en |-> 0, en |-> Set]
InfoPartitionCfg ==
    [rd_en |-> Set, prog_en |-> Set, erase_en |-> Set, scramble_en |-> Set,
     ecc_en |-> Set, he_en |-> 0, en |-> Set]

\* the variables a configuration leaves alone
config_rest == <<read_buf, read_index, write_buf, write_index,
                 write_word_addr, intr_enable, intr_state, control, addr,
                 fifo_lvl, op_status, mp_bank_cfg, hw, rd_fifo, prog_fifo,
                 flash, nerrors, pushed, content, owner, events, panicked,
                 mp_ret, pure, spi, console>>

ConfigCommit(s) ==
    /\ registers' = s.registers
    /\ configure_runs' = s.configure_runs
    /\ data_configured' = s.data_configured
    /\ info_configured' = s.info_configured
    /\ UNCHANGED config_rest

\* The registers as the earlier stage left them, before the driver's first
\* operation configures the partitions.
EarlierStage(cfg, region, info) ==
    /\ config_pc.fn = "none"
    /\ LET s == [Cur EXCEPT !.registers.mp_region_cfg[region_num] = cfg,
                            !.registers.mp_region[region_num] = region,
                            !.registers.bank1_info0_page_cfg[region_num] =
                                info]
       IN  /\ ConfigCommit(s)
           /\ config_pc' = [fn |-> "stale", at |-> 0,
                            before |-> s.registers]

\* a configuration may start: none is under way
ConfigIdle ==
    \/ config_pc.fn = "stale"
    \/ config_pc.fn = "configure_data_partition" /\ config_pc.at = 4
    \/ config_pc.fn = "configure_info_partition" /\ config_pc.at = 2

\* the next register write of configure_data_partition
ConfigureDataStep ==
    /\ \/ ConfigIdle /\ ~data_configured
       \/ config_pc.fn = "configure_data_partition" /\ config_pc.at < 4
    /\ LET k == IF config_pc.fn = "configure_data_partition"
                THEN config_pc.at + 1 ELSE 1
       IN  /\ ConfigCommit(data_partition_step(Cur, region_num, k))
           /\ config_pc' = [fn |-> "configure_data_partition", at |-> k,
                            before |-> IF k = 1 THEN registers
                                       ELSE config_pc.before]

\* the next register write of configure_info_partition
ConfigureInfoStep ==
    /\ \/ ConfigIdle /\ ~info_configured
       \/ config_pc.fn = "configure_info_partition" /\ config_pc.at < 2
    /\ LET k == IF config_pc.fn = "configure_info_partition"
                THEN config_pc.at + 1 ELSE 1
       IN  /\ ConfigCommit(info_partition_step(Cur, region_num, k))
           /\ config_pc' = [fn |-> "configure_info_partition", at |-> k,
                            before |-> IF k = 1 THEN registers
                                       ELSE config_pc.before]

ConfigNext ==
    \/ \E cfg \in StaleFields(MP_REGION_CFG), region \in StaleRegions,
          info \in StaleFields(BANK_INFO_PAGE_CFG) :
          EarlierStage(cfg, region, info)
    \/ ConfigureDataStep
    \/ ConfigureInfoStep

ConfigSpec == Init /\ [][ConfigNext]_vars

\* C31: from the first write to a region's configuration until the
\* configuration is done, the region is enabled only with the permission
\* bits and the base and size the configuration writes: never with what the
\* registers held before.
C31_NeverEnabledStale ==
    /\ (config_pc.fn = "configure_data_partition" /\ config_pc.at >= 2
        /\ registers.mp_region_cfg[region_num].en = Set)
       => /\ registers.mp_region_cfg[region_num] = DataPartitionCfg
          /\ registers.mp_region[region_num] =
                 [base |-> FLASH_PAGES_PER_BANK, size |-> 1]
    /\ (config_pc.fn = "configure_info_partition" /\ config_pc.at >= 1
        /\ registers.bank1_info0_page_cfg[region_num].en = Set)
       => registers.bank1_info0_page_cfg[region_num] = InfoPartitionCfg

\* The data region was enabled with another base and size before; the
\* permissions are written, the region is disabled, base and size are not
\* yet written.
C31_Witness ==
    /\ config_pc.fn = "configure_data_partition" /\ config_pc.at = 2
    /\ config_pc.before.mp_region_cfg[region_num].en = Set
    /\ config_pc.before.mp_region[region_num] = [base |-> 10, size |-> 3]
    /\ registers.mp_region[region_num] = [base |-> 10, size |-> 3]
    /\ registers.mp_region_cfg[region_num].en = Clear

----------------------------------------------------------------------------
\* The process console (capsules/src/process_console.rs)

\* received bytes the console tells apart
CR == 13
LF == 10
BS == 8
\* the first byte of "kernel"
LetterK == 107
\* the bytes received: the newlines, the backspace, the letters a and k,
\* and a byte that is not ASCII
RxBytes == {CR, LF, BS, 97, LetterK, 200}

\* ProcessConsole::new with a tx buffer of tx_len bytes: the fields of the
\* struct, then the UART below the console (the buffer it transmits, whether
\* a receive is armed), then what the console has written so far: every
\* byte handed to write_byte or write_bytes is numbered (nout), queued lists
\* the bytes copied into the queue buffer and sent those handed to the UART;
\* n_newline counts the bytes taken as a newline, pair_pending says that the
\* newline waiting to be executed is a two-byte one, read_states collects
\* the states read_command was called in.
ProcessConsoleNew(tx_len) ==
    [constructed |-> TRUE,
     tx_in_progress |-> FALSE,
     tx_buffer |-> TRUE,
     tx_buffer_len |-> tx_len,
     queue_buffer |-> [i \in 0..(QueueBufLen - 1) |-> 0],
     queue_size |-> 0,
     writer_state |-> "Empty",
     rx_in_progress |-> FALSE,
     rx_buffer |-> TRUE,
     command_buffer |-> [i \in 0..(CommandBufLen - 1) |-> 0],
     command_index |-> 0,
     previous_byte |-> 0,
     running |-> FALSE,
     execute |-> FALSE,
     alarm_set |-> FALSE,
     welcomed |-> FALSE,
     uart_tx_busy |-> FALSE,
     uart_tx |-> <<>>,
     uart_rx |-> FALSE,
     tx_while_busy |-> FALSE,
     nout |-> 0,
     queued |-> <<>>,
     sent |-> <<>>,
     n_rx |-> 0,
     n_tx_done |-> 0,
     last_rx |-> 0,
     last_rx_error |-> FALSE,
     n_newline |-> 0,
     pair_pending |-> FALSE,
     n_read_command |-> 0,
     read_states |-> {},
     hq_ret |-> "none",
     panicked |-> FALSE]

\* the numbers of the next n bytes written
NewIds(c, n) == [i \in 1..n |-> c.nout + i]

\* uart.transmit_buffer: a free UART takes the buffer and the bytes; a UART
\* still transmitting refuses, which the console does not look at
uart_transmit_buffer(c, data) ==
    IF c.uart_tx_busy
    THEN [c EXCEPT !.tx_while_busy = TRUE]
    ELSE [c EXCEPT !.uart_tx_busy = TRUE, !.uart_tx = data,
                   !.sent = @ \o data]

\* uart.receive_buffer(buffer, 1)
uart_receive_buffer(c) == [c EXCEPT !.uart_rx = TRUE]

\* write_bytes ignoring tx_in_progress: always to the UART
write_bytes_Unqueued(c, n) ==
    LET ids == NewIds(c, n)
        len == Min(n, c.tx_buffer_len)
    IN  uart_transmit_buffer(
            [c EXCEPT !.nout = @ + n, !.tx_in_progress = TRUE,
                      !.tx_buffer = FALSE],
            SubSeq(ids, 1, len))

\* write_bytes(bytes), bytes of length n
write_bytes(c, n) ==
    LET ids == NewIds(c, n)
        c1 == [c EXCEPT !.nout = @ + n]
    IN  IF c.tx_in_progress
        THEN LET size == c.queue_size
                 len == Min(n, QueueBufLen - size)
             IN  [c1 EXCEPT
                     !.queue_buffer =
                         [i \in 0..(QueueBufLen - 1) |->
                             IF i >= size /\ i < size + len
                             THEN ids[i - size + 1] ELSE @[i]],
                     !.queue_size = size + len,
                     !.queued = @ \o SubSeq(ids, 1, len)]
        ELSE LET c2 == [c1 EXCEPT !.tx_in_progress = TRUE]
             IN  IF c2.tx_buffer
                 THEN uart_transmit_buffer(
                          [c2 EXCEPT !.tx_buffer = FALSE],
                          SubSeq(ids, 1, Min(n, c2.tx_buffer_len)))
                 ELSE c2

\* write_byte(byte): buf[queue_size] is an index past the end of the queue
\* buffer when the queue is full, and the kernel panics
write_byte(c) ==
    LET ids == NewIds(c, 1)
        c1 == [c EXCEPT !.nout = @ + 1]
    IN  IF c.tx_in_progress
        THEN IF c.queue_size >= QueueBufLen
             THEN [c1 EXCEPT !.panicked = TRUE]
             ELSE [c1 EXCEPT !.queue_buffer[c.queue_size] = ids[1],
                             !.queue_size = @ + 1,
                             !.queued = @ \o ids]
        ELSE LET c2 == [c1 EXCEPT !.tx_in_progress = TRUE]
             IN  IF c2.tx_buffer
                 THEN uart_transmit_buffer(
                          [c2 EXCEPT !.tx_buffer = FALSE], ids)
                 ELSE c2

\* prompt(): "tock$ "
prompt(c) == write_bytes(c, PromptLen)

\* handle_queue: the first txlen bytes of the queue buffer go to the UART;
\* what remains stays where it is in the buffer, only queue_size shrinks.
\* hq_ret is what it returns: Ok(0), Ok(n > 0) or Err.
handle_queue(c) ==
    IF c.tx_in_progress THEN [c EXCEPT !.hq_ret = "Err"]
    ELSE LET qlen == c.queue_size IN
         IF qlen > 0
         THEN IF c.tx_buffer
              THEN LET txlen == Min(qlen, c.tx_buffer_len)
                       data == [i \in 1..txlen |-> c.queue_buffer[i - 1]]
                   IN  uart_transmit_buffer(
                           [c EXCEPT !.tx_buffer = FALSE,
                                     !.queue_size = qlen - txlen,
                                     !.tx_in_progress = TRUE,
                                     !.hq_ret = "Ok"],
                           data)
              ELSE [c EXCEPT !.hq_ret = "Err"]
         ELSE [c EXCEPT !.hq_ret = "Ok0"]

\* next_state, the kernel states
next_state(state) ==
    CASE state = "KernelStart" -> "KernelBss"
      [] state = "KernelBss" -> "KernelInit"
      [] state = "KernelInit" -> "KernelStack"
      [] state = "KernelStack" -> "KernelRoData"
      [] state = "KernelRoData" -> "KernelText"
      [] state = "KernelText" -> "Empty"
      [] OTHER -> "Empty"

\* create_state_buffer: one write_bytes per kernel section, the prompt when
\* the state machine is back at Empty
create_state_buffer(c, state) ==
    IF state \in {"KernelBss", "KernelInit", "KernelStack", "KernelRoData",
                  "KernelText"}
    THEN write_bytes(c, KernelChunkLen)
    ELSE IF state = "Empty" THEN prompt(c) ELSE c

\* write_state
write_state(c, state) ==
    LET c1 == [c EXCEPT !.writer_state = next_state(state)]
    IN  create_state_buffer(c1, c1.writer_state)

\* the index of the first 0 in the command buffer, 0 when there is none
Terminator(command) ==
    IF \E i \in 0..(CommandBufLen - 1) : command[i] = 0
    THEN CHOOSE i \in 0..(CommandBufLen - 1) :
             /\ command[i] = 0
             /\ \A j \in 0..(i - 1) : command[j] # 0
    ELSE 0

\* read_command: "kernel" is told from the other commands by its first
\* letter (the command buffer is too short for the name); every other
\* command is answered like an unknown one, with the list of commands.
read_command(c) ==
    LET c0 == [c EXCEPT !.n_read_command = @ + 1,
                        !.read_states = @ \cup
                            {<<c.tx_in_progress, c.queue_size,
                               c.writer_state, c.uart_tx_busy>>}]
        terminator == Terminator(c0.command_buffer)
        c1 == IF terminator > 0
              THEN IF c0.command_buffer[0] = LetterK
                   THEN [write_bytes(c0, VersionLen)
                            EXCEPT !.writer_state = "KernelStart"]
                   ELSE write_bytes(write_bytes(c0, ReplyLen),
                                    ValidCommandsLen)
              ELSE c0
        c2 == [c1 EXCEPT !.command_buffer[0] = 0, !.command_index = 0]
    IN  IF c2.writer_state = "Empty" THEN prompt(c2) ELSE c2

\* TransmitClient::transmitted_buffer
transmitted_buffer(c) ==
    LET c1 == handle_queue([c EXCEPT !.tx_buffer = TRUE,
                                     !.tx_in_progress = FALSE])
    IN  IF c1.hq_ret \in {"Ok0", "Err"}
        THEN IF c1.writer_state # "Empty"
             THEN write_state(c1, c1.writer_state)
             ELSE IF c1.execute
                  THEN read_command([c1 EXCEPT !.execute = FALSE,
                                               !.pair_pending = FALSE])
                  ELSE c1
        ELSE c1

\* received_buffer storing and echoing every byte that is not a newline or
\* a backspace while there is room, its value not looked at
received_byte_NoAsciiTest(c, byte) ==
    LET previous_byte == c.previous_byte
        c1 == [c EXCEPT !.previous_byte = byte]
        index == c.command_index
    IN  IF byte \in {LF, CR}
        THEN IF previous_byte \in {LF, CR} /\ previous_byte # byte
             THEN [c1 EXCEPT !.previous_byte = 0,
                             !.pair_pending = c.execute]
             ELSE write_bytes([c1 EXCEPT !.execute = TRUE,
                                         !.n_newline = @ + 1], CrLfLen)
        ELSE IF byte \in {BS, 127}
        THEN IF index > 0
             THEN [write_bytes(c1, BackspaceEchoLen)
                      EXCEPT !.command_buffer[index - 1] = 0,
                             !.command_index = index - 1]
             ELSE c1
        ELSE IF index < CommandBufLen - 1
        THEN LET c2 == write_byte(c1)
             IN  IF c2.panicked THEN c2
                 ELSE [c2 EXCEPT !.command_buffer[index] = byte,
                                 !.command_index = index + 1,
                                 !.command_buffer[index + 1] = 0]
        ELSE c1

\* the body of received_buffer for one byte received without error
received_byte(c, byte) ==
    LET previous_byte == c.previous_byte
        c1 == [c EXCEPT !.previous_byte = byte]
        index == c.command_index
    IN  IF byte \in {LF, CR}
        THEN IF previous_byte \in {LF, CR} /\ previous_byte # byte
             THEN [c1 EXCEPT !.previous_byte = 0,
                             !.pair_pending = c.execute]
             ELSE write_bytes([c1 EXCEPT !.execute = TRUE,
                                         !.n_newline = @ + 1], CrLfLen)
        ELSE IF byte \in {BS, 127}
        THEN IF index > 0
             THEN [write_bytes(c1, BackspaceEchoLen)
                      EXCEPT !.command_buffer[index - 1] = 0,
                             !.command_index = index - 1]
             ELSE c1
        ELSE IF index < CommandBufLen - 1 /\ byte < 128
        THEN LET c2 == write_byte(c1)
             IN  IF c2.panicked THEN c2
                 ELSE [c2 EXCEPT !.command_buffer[index] = byte,
                                 !.command_index = index + 1,
                                 !.command_buffer[index + 1] = 0]
        ELSE c1

\* ReceiveClient::received_buffer: one byte, or a receive error
received_buffer(c, byte, error) ==
    LET c0 == [c EXCEPT !.uart_rx = FALSE, !.n_rx = @ + 1,
                        !.last_rx = byte, !.last_rx_error = error]
        c1 == IF error THEN c0 ELSE received_byte(c0, byte)
    IN  IF c1.panicked THEN c1
        ELSE uart_receive_buffer([c1 EXCEPT !.rx_in_progress = TRUE])

\* AlarmClient::alarm
alarm(c) ==
    LET c1 == prompt([c EXCEPT !.alarm_set = FALSE])
    IN  IF c1.rx_buffer
        THEN uart_receive_buffer([c1 EXCEPT !.rx_buffer = FALSE,
                                            !.rx_in_progress = TRUE])
        ELSE c1

\* start
start(c) ==
    IF ~c.running
    THEN [c EXCEPT !.alarm_set = TRUE, !.running = TRUE]
    ELSE c

\* display_welcome
display_welcome(c) ==
    LET c1 == IF ~c.running /\ c.rx_buffer
              THEN [uart_receive_buffer(c)
                       EXCEPT !.rx_buffer = FALSE, !.rx_in_progress = TRUE,
                              !.running = TRUE]
              ELSE c
    IN  prompt(write_bytes(write_bytes(write_bytes(write_bytes(
            [c1 EXCEPT !.welcomed = TRUE],
            VersionLen), WelcomeLen), ReplyLen), ValidCommandsLen))

ConsoleCommit(c) ==
    /\ console' = c
    /\ UNCHANGED flash_vars
    /\ UNCHANGED <<pure, spi, config_pc>>

ConsoleNew ==
    /\ ~console.constructed
    /\ \E tx_len \in TxBufLens : ConsoleCommit(ProcessConsoleNew(tx_len))

ConsoleStart ==
    /\ console.constructed /\ ~console.panicked
    /\ ~console.running
    /\ ConsoleCommit(start(console))

ConsoleDisplayWelcome ==
    /\ console.constructed /\ ~console.panicked
    /\ ~console.running /\ ~console.welcomed
    /\ ConsoleCommit(display_welcome(console))

ConsoleAlarm ==
    /\ console.constructed /\ ~console.panicked
    /\ console.alarm_set
    /\ ConsoleCommit(alarm(console))

\* the UART has received a byte, or failed to
ConsoleReceivedBuffer ==
    /\ console.constructed /\ ~console.panicked
    /\ console.uart_rx
    /\ console.n_rx < MaxRx
    /\ \E byte \in RxBytes, error \in BOOLEAN :
           ConsoleCommit(received_buffer(console, byte, error))

\* the UART has transmitted the buffer it holds
ConsoleTransmittedBuffer ==
    /\ console.constructed /\ ~console.panicked
    /\ console.uart_tx_busy
    /\ ConsoleCommit(transmitted_buffer(
           [console EXCEPT !.uart_tx_busy = FALSE, !.uart_tx = <<>>,
                           !.n_tx_done = @ + 1]))

ConsoleNext ==
    \/ ConsoleNew
    \/ ConsoleStart
    \/ ConsoleDisplayWelcome
    \/ ConsoleAlarm
    \/ ConsoleReceivedBuffer
    \/ ConsoleTransmittedBuffer

ConsoleSpec == Init /\ [][ConsoleNext]_vars

\* C35: at most one UART transmission is outstanding. tx_in_progress is
\* true exactly while the UART holds the tx buffer, and transmit_buffer is
\* never called on a UART that is transmitting. What the console writes
\* while a transmission is in progress goes to the queue and not to the
\* UART. When handle_queue returns Ok(0) the queue was empty and it sent
\* nothing: whatever the handler sends after it was written after it, and
\* the UART took it.
C35_OneTransmissionOutstanding ==
    /\ [](console.constructed =>
            /\ console.tx_in_progress <=> console.uart_tx_busy
            /\ console.tx_in_progress <=> ~console.tx_buffer
            /\ ~console.tx_while_busy)
    /\ [][console.constructed =>
            /\ (console.tx_in_progress /\ console'.n_rx = console.n_rx + 1)
               => /\ console'.sent = console.sent
                  /\ console'.uart_tx = console.uart_tx
                  /\ \E len \in 0..(console'.nout - console.nout) :
                         console'.queued = console.queued \o
                             [i \in 1..len |-> console.nout + i]
            /\ (console'.n_tx_done = console.n_tx_done + 1
                /\ console'.hq_ret = "Ok0")
               => /\ console.queue_size = 0
                  /\ \A i \in (Len(console.sent) + 1)..Len(console'.sent) :
                         console'.sent[i] > console.nout
                  /\ console'.tx_in_progress <=> console'.uart_tx_busy]_vars

\* A transmission is in progress, output written meanwhile waits in the
\* queue, and an earlier completion found the queue empty.
C35_Witness ==
    /\ console.constructed
    /\ console.tx_in_progress /\ console.uart_tx_busy
    /\ console.queue_size > 0
    /\ console.n_tx_done > 0 /\ console.hq_ret = "Ok0"

\* C36: queue_size never exceeds the length of the queue buffer, and
\* write_byte and write_bytes never write outside the queue buffer: no
\* sequence of received bytes and transmit completions ends in the panic of
\* an index past the end of the queue buffer.
C36_QueueWithinBounds ==
    console.constructed =>
        /\ console.queue_size <= QueueBufLen
        /\ ~console.panicked

\* C37: the bytes queued while a transmission is in progress are handed to
\* the UART in the order they were queued and each once, whatever the
\* lengths of the tx buffer and of the queue: at any time the queued bytes
\* sent so far are the first of the bytes queued so far.
C37_QueueSentInOrder ==
    console.constructed =>
        LET InQueued(x) ==
                \E i \in 1..Len(console.queued) : console.queued[i] = x
            from_queue == SelectSeq(console.sent, InQueued)
        IN  /\ Len(from_queue) <= Len(console.queued)
            /\ from_queue = SubSeq(console.queued, 1, Len(from_queue))

\* C38: a newline byte that follows the other newline byte is the second
\* half of one newline: it sets nothing and echoes nothing, and the next
\* byte starts afresh. Every other newline byte, one that repeats the byte
\* before it included, is a newline of its own: it sets execute and writes
\* the two-byte echo. A two-byte newline waiting to be executed leads to a
\* command execution: the kernel does not panic before.
C38_PairIsOneNewline ==
    /\ [][(console.constructed /\ console'.n_rx = console.n_rx + 1
            /\ ~console'.last_rx_error /\ console'.last_rx \in {CR, LF})
           => IF console.previous_byte \in {CR, LF}
                 /\ console.previous_byte # console'.last_rx
              THEN /\ console'.n_newline = console.n_newline
                   /\ console'.nout = console.nout
                   /\ console'.execute = console.execute
                   /\ console'.previous_byte = 0
              ELSE /\ console'.n_newline = console.n_newline + 1
                   /\ console'.nout = console.nout + CrLfLen
                   /\ console'.execute
                   /\ console'.previous_byte = console'.last_rx]_vars
    /\ []((console.constructed /\ console.pair_pending)
            => ~console.panicked)

\* C39: read_command is called only with no transmission in progress, the
\* queue empty and the writer state machine at Empty; after it
\* command_index is 0, the command buffer starts with the terminator and
\* execute is false; and every newline that set execute gets a
\* read_command of its own: once the console has nothing left to send or
\* to execute, there were as many read_command calls as newlines.
C39_OneReadCommandPerNewline ==
    /\ [](console.constructed =>
            /\ console.read_states \subseteq {<<FALSE, 0, "Empty", FALSE>>}
            /\ console.n_read_command <= console.n_newline
            /\ (/\ ~console.tx_in_progress /\ console.queue_size = 0
                /\ console.writer_state = "Empty" /\ ~console.execute
                /\ ~console.panicked)
               => console.n_read_command = console.n_newline)
    /\ [][(console.constructed
            /\ console'.n_read_command = console.n_read_command + 1)
           => /\ console'.command_index = 0
              /\ console'.command_buffer[0] = 0
              /\ ~console'.execute]_vars

\* C40: command_index is always less than the length of the command buffer
\* and the byte at command_index is 0. A byte that is neither a newline nor
\* a backspace, received with the buffer full (command_index = len - 1) or
\* with a value of 128 or more, is not stored and not echoed; a backspace
\* received with command_index = 0 leaves the command, the output and
\* execute as they are.
C40_CommandTerminated ==
    /\ [](console.constructed =>
            /\ console.command_index < CommandBufLen
            /\ console.command_buffer[console.command_index] = 0)
    /\ [][(console.constructed /\ console'.n_rx = console.n_rx + 1
            /\ ~console'.last_rx_error
            /\ \/ /\ console'.last_rx \notin {CR, LF, BS, 127}
                  /\ \/ console.command_index = CommandBufLen - 1
                     \/ console'.last_rx >= 128
               \/ /\ console'.last_rx \in {BS, 127}
                  /\ console.command_index = 0)
           => /\ console'.command_buffer = console.command_buffer
              /\ console'.command_index = console.command_index
              /\ console'.nout = console.nout
              /\ console'.queue_buffer = console.queue_buffer
              /\ console'.queue_size = console.queue_size
              /\ console'.sent = console.sent
              /\ console'.execute = console.execute
              /\ ~console'.panicked]_vars

\* The command buffer is full and the byte received last, a byte that is
\* not ASCII, was neither stored nor echoed.
C40_Witness ==
    /\ console.constructed
    /\ console.command_index = CommandBufLen - 1
    /\ console.command_buffer[0] # 0 /\ console.command_buffer[1] # 0
    /\ console.last_rx >= 128 /\ ~console.last_rx_error
    /\ console.n_rx = 3

============================================================================
